---- MODULE Spec2Model ----
(***************************************************************************)
(* The IELTS evaluation pipeline of backend/app: the router, the five      *)
(* evaluator nodes, the synthesizer and the error node of graph_builder.py *)
(* and graph_nodes.py, driven over the edges create_graph declares.        *)
(*                                                                         *)
(* Text is a sequence of atoms.  A category (task_type) and an essay are   *)
(* sequences of one-character strings, so that lower(), split() and the    *)
(* substring test are computed character by character.  A message is a     *)
(* sequence of non-empty fragments, so that an f-string is a concatenation *)
(* and the empty string is the empty sequence.                             *)
(***************************************************************************)
EXTENDS Integers, Sequences, FiniteSets, TLC

VARIABLES
    state,                \* the GraphState channels of one invocation
    pc,                   \* the node the executor is at
    phase,                \* position inside the node: enter, invoke, sleep, returned
    attempt,              \* the retry loop's variable of the running node
    response,             \* the collaborator's answer to the running node's last call
    update,               \* what the running node returned (or raised)
    outcome,              \* how the running node finished
    nodeCalls,            \* generation calls made by the running node
    nodeSleeps,           \* durations of the running node's backoff sleeps
    callCount,            \* generation calls of the whole invocation
    visited,              \* the nodes executed so far, in order
    failedCalls,          \* generation calls of the invocation that were not accepted
    sleepCount,           \* backoff sleeps of the whole invocation
    events,               \* what the executor's stream has yielded: one event per node
    api_response,         \* the EvaluationResponse of evaluate_essay, once built
    caller,               \* who runs the graph: evaluate_essay (astream), or a direct call
    MAX_RETRIES,          \* UniversalLLMConfig.MAX_RETRIES, read from the environment
    expected_output_keys, \* per criterion, the keys of its rubric's output_format
    prompt,               \* the template and the values a node's chain is invoked with
    text,                 \* sanitize_text: its argument
    sanitized,            \* sanitize_text: the results of its successive applications
    max_length,           \* sanitize_text: the length over which it truncates
    evaluation_history,   \* DataManager: the files of evaluation_history_dir
    question_bank,        \* DataManager: the files of question_bank_dir
    now,                  \* DataManager: the clock datetime.now() reads
    returned,             \* DataManager and its endpoints: the last call and its result
    heap,                 \* concurrent requests: the dict objects, by identity
    invocations,          \* concurrent requests: each request's graph state
    rubric_data           \* concurrent requests: the rubrics the node closures hold

pipelineVars == <<state, pc, phase, attempt, response, update, outcome, nodeCalls,
                  nodeSleeps, callCount, visited, failedCalls, sleepCount, events,
                  api_response, caller, MAX_RETRIES, expected_output_keys>>

textVars == <<text, sanitized, max_length>>

storeVars == <<evaluation_history, question_bank, now, returned>>

concurrentVars == <<heap, invocations, rubric_data>>

vars == <<pipelineVars, prompt, textVars, storeVars, concurrentVars>>

-----------------------------------------------------------------------------
(* Bounds *)

\* MODEL_MAX_RETRIES ranges over 1..MaxRetriesConfig (the default is 3).
MaxRetriesConfig == 3

\* A category of the router's own specification is built of at most MaxPieces pieces.
MaxPieces == 2

\* The history handed to the pipeline holds at most MaxHistory prior attempts.
MaxHistory == 1

\* sanitize_text is applied to the texts of at most MaxTextLen characters.
MaxTextLen == 4

\* synthesizer_node on its own is given at most MaxAttempts prior attempts.
MaxAttempts == 2

\* At most MaxInvocations requests are evaluated at the same time.
MaxInvocations == 2

\* The clock of the data manager is read at the instants 0..MaxTicks, and
\* TicksPerSecond instants fall into one second.
MaxTicks == 3
TicksPerSecond == 2

-----------------------------------------------------------------------------
(* Text *)

EmptyText == <<>>

EmptyMap == [k \in {} |-> 0]

UpperCase == <<"A", "B", "C", "D", "E", "F", "G", "H", "I", "J", "K", "L", "M",
               "N", "O", "P", "Q", "R", "S", "T", "U", "V", "W", "X", "Y", "Z">>

LowerCase == <<"a", "b", "c", "d", "e", "f", "g", "h", "i", "j", "k", "l", "m",
               "n", "o", "p", "q", "r", "s", "t", "u", "v", "w", "x", "y", "z">>

\* str.lower() on one character.
LowerChar(c) ==
    IF \E i \in 1..Len(UpperCase) : UpperCase[i] = c
    THEN LowerCase[CHOOSE i \in 1..Len(UpperCase) : UpperCase[i] = c]
    ELSE c

\* str.lower()
Lower(s) == [i \in 1..Len(s) |-> LowerChar(s[i])]

\* Python's `sub in s` on strings.
IsSubstring(sub, s) ==
    \E i \in 0..(Len(s) - Len(sub)) : SubSeq(s, i + 1, i + Len(sub)) = sub

\* Python truthiness of a string, a list or a dict: non-empty.
Truthy(v) == DOMAIN v # {}

\* dict.get(key, default)
StateGet(st, key, default) == IF key \in DOMAIN st THEN st[key] ELSE default

Whitespace == {" ", "\n"}

\* str.split(): the maximal runs of non-whitespace characters.
RECURSIVE SplitFrom(_, _, _)
SplitFrom(s, i, word) ==
    IF i > Len(s)
    THEN (IF word = <<>> THEN <<>> ELSE <<word>>)
    ELSE IF s[i] \in Whitespace
         THEN (IF word = <<>> THEN <<>> ELSE <<word>>) \o SplitFrom(s, i + 1, <<>>)
         ELSE SplitFrom(s, i + 1, Append(word, s[i]))

Split(s) == SplitFrom(s, 1, <<>>)

\* s[:n]
Take(s, n) == SubSeq(s, 1, IF Len(s) < n THEN Len(s) ELSE n)

Digits == <<"0", "1", "2", "3", "4", "5", "6", "7", "8", "9">>

\* str(n) of a natural number: its decimal digits.
RECURSIVE Str(_)
Str(n) ==
    IF n < 10
    THEN <<Digits[n + 1]>>
    ELSE Str(n \div 10) \o <<Digits[(n % 10) + 1]>>

\* ' '.join(words)
RECURSIVE Join(_)
Join(words) ==
    IF words = <<>> THEN EmptyText
    ELSE IF Len(words) = 1 THEN words[1]
    ELSE words[1] \o <<" ">> \o Join(Tail(words))

\* `if len(text) > 15000`
MAX_TEXT_LENGTH == 15000

\* "... [truncated]"
TRUNCATED == <<".", ".", ".", " ", "[", "t", "r", "u", "n", "c", "a", "t", "e", "d", "]">>

\* A sanitizer that truncates a text already at the limit.
sanitize_text_strict(txt, limit) ==
    IF ~Truthy(txt)
    THEN EmptyText
    ELSE LET joined == Join(Split(txt))
         IN  IF Len(joined) >= limit
             THEN SubSeq(joined, 1, limit) \o TRUNCATED
             ELSE joined

\* sanitize_text, with the length it truncates over as a parameter.
sanitize_text_upto(txt, limit) ==
    IF ~Truthy(txt)
    THEN EmptyText
    ELSE LET joined == Join(Split(txt))
         IN  IF Len(joined) > limit
             THEN SubSeq(joined, 1, limit) \o TRUNCATED
             ELSE joined

sanitize_text(txt) == sanitize_text_upto(txt, MAX_TEXT_LENGTH)

TASK_1 == <<"t", "a", "s", "k", " ", "1">>
TASK_2 == <<"t", "a", "s", "k", " ", "2">>

-----------------------------------------------------------------------------
(* The graph: node names, criteria, edges *)

START == "__start__"
END == "__end__"

EvaluatorNodes == {"evaluate_task_achievement_t1", "evaluate_task_response_t2",
                   "evaluate_coherence_cohesion", "evaluate_lexical_resource",
                   "evaluate_grammatical_range"}

\* A factory call that gives the grammar evaluator the lexical criterion's name.
criterion_name_shared(node) ==
    CASE node = "evaluate_task_achievement_t1" -> "task_achievement"
      [] node = "evaluate_task_response_t2" -> "task_response"
      [] node = "evaluate_coherence_cohesion" -> "coherence_cohesion"
      [] node = "evaluate_lexical_resource" -> "lexical_resource"
      [] node = "evaluate_grammatical_range" -> "lexical_resource"

\* create_evaluator_node(criterion_name, rubric_filename), one call per node.
criterion_name(node) ==
    CASE node = "evaluate_task_achievement_t1" -> "task_achievement"
      [] node = "evaluate_task_response_t2" -> "task_response"
      [] node = "evaluate_coherence_cohesion" -> "coherence_cohesion"
      [] node = "evaluate_lexical_resource" -> "lexical_resource"
      [] node = "evaluate_grammatical_range" -> "grammatical_range"

Criteria == {criterion_name(n) : n \in EvaluatorNodes}

\* The edges with the lexical and the grammar evaluators in the other order.
NextNode_swapped(node) ==
    CASE node = "evaluate_task_achievement_t1" -> "evaluate_coherence_cohesion"
      [] node = "evaluate_task_response_t2" -> "evaluate_coherence_cohesion"
      [] node = "evaluate_coherence_cohesion" -> "evaluate_grammatical_range"
      [] node = "evaluate_grammatical_range" -> "evaluate_lexical_resource"
      [] node = "evaluate_lexical_resource" -> "synthesizer"
      [] node = "synthesizer" -> END
      [] node = "handle_error" -> END

\* The edges with the synthesizer handing over to a node that never runs.
NextNode_unfinished(node) ==
    CASE node = "evaluate_task_achievement_t1" -> "evaluate_coherence_cohesion"
      [] node = "evaluate_task_response_t2" -> "evaluate_coherence_cohesion"
      [] node = "evaluate_coherence_cohesion" -> "evaluate_lexical_resource"
      [] node = "evaluate_lexical_resource" -> "evaluate_grammatical_range"
      [] node = "evaluate_grammatical_range" -> "synthesizer"
      [] node = "synthesizer" -> "report_formatter"
      [] node = "handle_error" -> END

\* The edges with the last evaluator handing over to the error terminal.
NextNode_to_terminal(node) ==
    CASE node = "evaluate_task_achievement_t1" -> "evaluate_coherence_cohesion"
      [] node = "evaluate_task_response_t2" -> "evaluate_coherence_cohesion"
      [] node = "evaluate_coherence_cohesion" -> "evaluate_lexical_resource"
      [] node = "evaluate_lexical_resource" -> "evaluate_grammatical_range"
      [] node = "evaluate_grammatical_range" -> "handle_error"
      [] node = "synthesizer" -> END
      [] node = "handle_error" -> END

\* The edges with the task 1 evaluator handing over to the task 2 evaluator.
NextNode_both_tasks(node) ==
    CASE node = "evaluate_task_achievement_t1" -> "evaluate_task_response_t2"
      [] node = "evaluate_task_response_t2" -> "evaluate_coherence_cohesion"
      [] node = "evaluate_coherence_cohesion" -> "evaluate_lexical_resource"
      [] node = "evaluate_lexical_resource" -> "evaluate_grammatical_range"
      [] node = "evaluate_grammatical_range" -> "synthesizer"
      [] node = "synthesizer" -> END
      [] node = "handle_error" -> END

\* workflow.add_edge(...)
NextNode(node) ==
    CASE node = "evaluate_task_achievement_t1" -> "evaluate_coherence_cohesion"
      [] node = "evaluate_task_response_t2" -> "evaluate_coherence_cohesion"
      [] node = "evaluate_coherence_cohesion" -> "evaluate_lexical_resource"
      [] node = "evaluate_lexical_resource" -> "evaluate_grammatical_range"
      [] node = "evaluate_grammatical_range" -> "synthesizer"
      [] node = "synthesizer" -> END
      [] node = "handle_error" -> END

\* The router without the lower(): a case-sensitive match.
should_evaluate_case_sensitive(st) ==
    LET task_type == StateGet(st, "task_type", EmptyText)
    IN  IF IsSubstring(TASK_1, task_type) THEN "evaluate_task_achievement_t1"
        ELSE IF IsSubstring(TASK_2, task_type) THEN "evaluate_task_response_t2"
        ELSE "handle_error"

\* The conditional entry point.
should_evaluate_task_1_or_2(st) ==
    LET task_type == Lower(StateGet(st, "task_type", EmptyText))
    IN  IF IsSubstring(TASK_1, task_type) THEN "evaluate_task_achievement_t1"
        ELSE IF IsSubstring(TASK_2, task_type) THEN "evaluate_task_response_t2"
        ELSE "handle_error"

-----------------------------------------------------------------------------
(* Messages and reports *)

NO_ESSAY == <<"No essay text provided">>

INVALID_OUTPUT_FORMAT == <<"LLM returned invalid output format">>

NO_EVALUATIONS == <<"No evaluation results found">>

DEFAULT_ERROR == <<"An unknown error occurred during evaluation.">>

GENERIC_ERROR_REPORT ==
    <<"**Evaluation Error**\n\nAn error occurred during the evaluation process. Please try again.">>

fallback_report ==
    <<"\n**Evaluation Report**\n\nAn error occurred while generating your detailed feedback report. ...\n">>

\* f"Failed during {criterion_name} evaluation: {str(e)}"
FailedDuring(criterion, e) == <<"Failed during ", criterion, " evaluation: ">> \o e

\* f"Synthesis error: {str(e)}"
SynthesisError(e) == <<"Synthesis error: ">> \o e

\* f"**Evaluation Error**\n\n{error_message}\n\nPlease check your inputs and try again."
ErrorWrapper(error_message) ==
    <<"**Evaluation Error**\n\n">> \o error_message
        \o <<"\n\nPlease check your inputs and try again.">>

-----------------------------------------------------------------------------
(* The generation collaborator *)

\* The field names a rubric's output_format and a response may use.
KeyUniverse == {"band_score", "feedback"}

\* str(e) of an exception of the collaborator; an exception may carry no text.
ExceptionMessages == {EmptyText, <<"Request timed out">>}

\* What json_parser yields: a JSON object with some keys, or a JSON array.
JsonValues == [type : {"dict"}, keys : SUBSET KeyUniverse]
                  \cup {[type |-> "list", keys |-> {}]}

\* chain.invoke of prompt | llm | json_parser: the call fails, the parse fails,
\* or a parsed value comes back.
ChainResponses ==
    [kind : {"error"}, exc : {"Exception"}, msg : ExceptionMessages, result : {EmptyMap}]
    \cup {[kind |-> "error", exc |-> "OutputParserException",
           msg |-> <<"Invalid json output">>, result |-> EmptyMap]}
    \cup [kind : {"result"}, exc : {"none"}, msg : {EmptyText}, result : JsonValues]

\* result.content of prompt | llm; the text may be empty.
ReportTexts == {EmptyText, <<"# Your Overall Band Score ...">>}

LLMResponses ==
    [kind : {"error"}, exc : {"Exception"}, msg : ExceptionMessages, result : {EmptyText}]
    \cup [kind : {"result"}, exc : {"none"}, msg : {EmptyText}, result : ReportTexts]

NoResponse == [kind |-> "none", exc |-> "none", msg |-> EmptyText, result |-> EmptyMap]

\* The validation that accepts on any overlap with the required keys.
validate_json_output_any(result, expected_keys) ==
    /\ result.type = "dict"
    /\ (expected_keys = {} \/ \E key \in expected_keys : key \in result.keys)

validate_json_output(result, expected_keys) ==
    IF result.type # "dict"
    THEN FALSE
    ELSE \A key \in expected_keys : key \in result.keys

\* An essay check that rejects only a missing essay_text key.
no_essay_text_only_absent(st) == "essay_text" \notin DOMAIN st

\* `if not state.get('essay_text')`
no_essay_text(st) == ~Truthy(StateGet(st, "essay_text", EmptyText))

\* The exception the retry loop ends with on its last attempt.
RaisedMessage(resp) ==
    IF resp.kind = "result" THEN INVALID_OUTPUT_FORMAT ELSE resp.msg

-----------------------------------------------------------------------------
(* Node results *)

\* A node's return value: a dict of channel updates, Python's None when the
\* function falls off its end, or an exception leaving the node.
Pending == [kind |-> "pending", val |-> EmptyMap]
Returned(val) == [kind |-> "dict", val |-> val]
ReturnedNone == [kind |-> "none", val |-> EmptyMap]
Raised(e) == [kind |-> "raise", val |-> [exception |-> e]]

\* An evaluator that returns its own result alone as the evaluations.
Put_alone(evaluations, criterion, result) == [k \in {criterion} |-> result]

\* current_evaluations[criterion_name] = result
Put(evaluations, criterion, result) ==
    [k \in DOMAIN evaluations \cup {criterion} |->
        IF k = criterion THEN result ELSE evaluations[k]]

\* An evaluator whose failure handler lets the exception leave the node.
evaluator_except_reraise(criterion, e) == Raised(e)

\* An evaluator whose failure handler also returns the evaluations so far emptied.
evaluator_except_clearing(criterion, e) ==
    Returned([error |-> FailedDuring(criterion, e), evaluations |-> EmptyMap])

\* An evaluator whose failure handler returns an empty error.
evaluator_except_silent(criterion, e) == Returned([error |-> EmptyText])

\* evaluator_node's outer `except Exception as e`.
evaluator_except(criterion, e) == Returned([error |-> FailedDuring(criterion, e)])

\* synthesizer_node's expected_evaluations.
expected_evaluations(st) ==
    LET task_type == Lower(StateGet(st, "task_type", EmptyText))
    IN  {"coherence_cohesion", "lexical_resource", "grammatical_range"}
            \cup (IF IsSubstring(TASK_1, task_type) THEN {"task_achievement"}
                  ELSE IF IsSubstring(TASK_2, task_type) THEN {"task_response"}
                  ELSE {})

\* A synthesizer that does not look at the error the state holds.
previous_error_ignored(st) == FALSE

\* `if state.get('error')`
previous_error(st) == Truthy(StateGet(st, "error", EmptyText))

\* A synthesizer that takes a missing evaluation for no evaluations.
no_evaluations_or_missing(st) ==
    \/ ~Truthy(StateGet(st, "evaluations", EmptyMap))
    \/ expected_evaluations(st) \ DOMAIN StateGet(st, "evaluations", EmptyMap) # {}

\* `if not evaluations`; the missing evaluations are logged and nothing else.
no_evaluations(st) == ~Truthy(StateGet(st, "evaluations", EmptyMap))

\* A synthesizer that replaces the error it found by a generic message.
synthesizer_previous_error_generic(st) ==
    Returned([final_report |-> GENERIC_ERROR_REPORT, error |-> DEFAULT_ERROR])

\* synthesizer_node's return when state['error'] is set.
synthesizer_previous_error(st) ==
    Returned([final_report |-> GENERIC_ERROR_REPORT, error |-> st.error])

\* A synthesizer that strips the report and treats an empty one as a failure.
synthesizer_report_checked(content) ==
    IF content = EmptyText
    THEN Returned([final_report |-> fallback_report,
                   error |-> <<"Synthesis error: ", "Empty report">>])
    ELSE Returned([final_report |-> content])

\* return {"final_report": result.content}
synthesizer_report(content) == Returned([final_report |-> content])

\* A synthesizer whose failure handler lets the exception leave the node.
synthesizer_except_reraise(e) == Raised(e)

\* synthesizer_node's outer `except Exception as e`.
synthesizer_except(e) ==
    Returned([final_report |-> fallback_report, error |-> SynthesisError(e)])

\* `if attempt == UniversalLLMConfig.MAX_RETRIES - 1: raise`, off by one.
IsLastAttempt_late(a, max_retries) == a = max_retries

IsLastAttempt(a, max_retries) == a = max_retries - 1

\* A backoff that sleeps for 2 * attempt seconds.
Backoff_linear(a) == 2 * a

\* A backoff that sleeps for one second before every retry.
Backoff_constant(a) == 1

\* time.sleep(2 ** attempt)
Backoff(a) == 2 ^ a

\* What the stream yields for a node: its name and its update (a dict, or None).
StreamEvent(node, u) ==
    [node |-> node, isdict |-> u.kind = "dict", value |-> u.val]

\* A merge that keeps the error the state already has.
ApplyUpdate_first_error(st, u) ==
    IF u.kind = "dict"
    THEN [k \in DOMAIN st |->
            IF k \in DOMAIN u.val /\ ~(k = "error" /\ st[k] # <<>>)
            THEN u.val[k] ELSE st[k]]
    ELSE st

\* The executor's merge of a node's update into the channels: a returned key
\* overwrites its channel, None changes nothing.
ApplyUpdate(st, u) ==
    IF u.kind = "dict"
    THEN [k \in DOMAIN st |-> IF k \in DOMAIN u.val THEN u.val[k] ELSE st[k]]
    ELSE st

-----------------------------------------------------------------------------
(* The prompts: the template a node chooses and the values it invokes with *)

N_A == <<"N/A">>

\* attempt.get(key, 'N/A'), as the f-string prints it.
AttemptText(a, key) == IF key \in DOMAIN a THEN a[key] ELSE N_A

\* f"{attempt.get('word_count', 'N/A')}"
AttemptWordCount(a) == IF "word_count" \in DOMAIN a THEN Str(a.word_count) ELSE N_A

PREVIOUS_ATTEMPTS_HEADER == "\n\n--- PREVIOUS ATTEMPTS FOR COMPARISON ---\n"

PREVIOUS_ATTEMPTS_INSTRUCTION ==
    <<"INSTRUCTION: When evaluating, note any improvements or regressions compared to previous attempts. ",
      "Provide specific feedback on how this submission compares to earlier ones.\n",
      "--- END PREVIOUS ATTEMPTS ---\n\n">>

\* The lines format_previous_attempts adds for attempt i.
RECURSIVE FormattedAttempts(_, _)
FormattedAttempts(previous_attempts, i) ==
    IF i > Len(previous_attempts)
    THEN EmptyText
    ELSE LET item == previous_attempts[i]
         IN  <<"ATTEMPT #">> \o Str(i) \o <<":\n">>
                 \o <<"Word Count: ">> \o AttemptWordCount(item) \o <<"\n">>
                 \o <<"Date: ">> \o Take(AttemptText(item, "timestamp"), 10) \o <<"\n">>
                 \o <<"Essay Excerpt: ">> \o AttemptText(item, "essay_text") \o <<"\n">>
                 \o <<"Previous Evaluation Summary: ">>
                 \o AttemptText(item, "evaluation_summary") \o <<"\n">>
                 \o <<"\n">>
                 \o FormattedAttempts(previous_attempts, i + 1)

format_previous_attempts(previous_attempts) ==
    IF ~Truthy(previous_attempts)
    THEN EmptyText
    ELSE <<PREVIOUS_ATTEMPTS_HEADER>>
             \o <<"This is attempt #">> \o Str(Len(previous_attempts) + 1)
             \o <<" for this question.\n\n">>
             \o FormattedAttempts(previous_attempts, 1)
             \o PREVIOUS_ATTEMPTS_INSTRUCTION

COMPARISON_INSTRUCTION ==
    <<"IMPORTANT: If there are previous attempts shown above, comment on improvements or areas that still need work compared to earlier submissions.">>

\* prepare_rubric_with_word_count: the criterion's rubric, serialised, with
\* the word count in the place of {word_count}.
prepare_rubric_with_word_count(criterion, word_count) ==
    [rubric |-> criterion, word_count |-> Str(word_count)]

\* An evaluator that chooses the visual template by its criterion.
evaluator_prompt_by_criterion(st, criterion) ==
    LET essay_text == sanitize_text(st.essay_text)
        previous_attempts == StateGet(st, "previous_attempts", <<>>)
        common == [criterion |-> criterion,
                   essay |-> essay_text,
                   rubric |-> prepare_rubric_with_word_count(
                                  criterion,
                                  StateGet(st, "word_count", Len(Split(essay_text)))),
                   previous_context |-> format_previous_attempts(previous_attempts)]
        prompt_text == StateGet(st, "prompt_text", EmptyText)
    IN  IF criterion = "task_achievement" /\ Truthy(prompt_text)
        THEN [template |-> "task_1",
              values |-> common @@ [visual_data |-> prompt_text]]
        ELSE [template |-> "plain",
              values |-> common @@ [comparison_instruction |->
                                        IF Truthy(previous_attempts)
                                        THEN COMPARISON_INSTRUCTION ELSE EmptyText]]

\* evaluator_node from the essay check to the retry loop: the PromptTemplate
\* it builds and the invoke_params it fills.
evaluator_prompt(st, criterion) ==
    LET essay_text == sanitize_text(st.essay_text)
        is_task_1 == IsSubstring(TASK_1, Lower(StateGet(st, "task_type", EmptyText)))
        prompt_text == StateGet(st, "prompt_text", EmptyText)
        previous_attempts == StateGet(st, "previous_attempts", <<>>)
        common == [criterion |-> criterion,
                   essay |-> essay_text,
                   rubric |-> prepare_rubric_with_word_count(
                                  criterion,
                                  StateGet(st, "word_count", Len(Split(essay_text)))),
                   previous_context |-> format_previous_attempts(previous_attempts)]
    IN  IF is_task_1 /\ Truthy(prompt_text)
        THEN [template |-> "task_1",
              values |-> common @@ [visual_data |-> prompt_text]]
        ELSE [template |-> "plain",
              values |-> common @@ [comparison_instruction |->
                                        IF Truthy(previous_attempts)
                                        THEN COMPARISON_INSTRUCTION ELSE EmptyText]]

SYNTHESIS_CONTEXT == "\nCONTEXT: This is attempt #"

SYNTHESIS_ATTEMPT == "\nAttempt #"

SYNTHESIS_SUMMARY == "- Previous feedback summary: "

SYNTHESIS_ELLIPSIS == "...\n"

SYNTHESIS_COMPARATIVE ==
    "\nIMPORTANT: Provide comparative feedback showing how this attempt compares to previous ones. Highlight improvements and persistent issues.\n"

\* `[:300]` of the synthesizer's summary excerpt.
SUMMARY_EXCERPT == 300

\* A synthesizer that lists the prior attempts latest first.
RECURSIVE SynthesisAttempts_latest_first(_, _)
SynthesisAttempts_latest_first(previous_attempts, i) ==
    IF i > Len(previous_attempts)
    THEN EmptyText
    ELSE LET item == previous_attempts[Len(previous_attempts) + 1 - i]
         IN  <<SYNTHESIS_ATTEMPT>> \o Str(i) \o <<" (">>
                 \o Take(AttemptText(item, "timestamp"), 10) \o <<"):\n">>
                 \o <<"- Word count: ">> \o AttemptWordCount(item) \o <<"\n">>
                 \o <<SYNTHESIS_SUMMARY>>
                 \o Take(AttemptText(item, "evaluation_summary"), SUMMARY_EXCERPT)
                 \o <<SYNTHESIS_ELLIPSIS>>
                 \o SynthesisAttempts_latest_first(previous_attempts, i + 1)

\* The lines the synthesizer adds to previous_context for attempt i.
RECURSIVE SynthesisAttempts(_, _)
SynthesisAttempts(previous_attempts, i) ==
    IF i > Len(previous_attempts)
    THEN EmptyText
    ELSE LET item == previous_attempts[i]
         IN  <<SYNTHESIS_ATTEMPT>> \o Str(i) \o <<" (">>
                 \o Take(AttemptText(item, "timestamp"), 10) \o <<"):\n">>
                 \o <<"- Word count: ">> \o AttemptWordCount(item) \o <<"\n">>
                 \o <<SYNTHESIS_SUMMARY>>
                 \o Take(AttemptText(item, "evaluation_summary"), SUMMARY_EXCERPT)
                 \o <<SYNTHESIS_ELLIPSIS>>
                 \o SynthesisAttempts(previous_attempts, i + 1)

\* synthesizer_node's previous_context.
synthesis_previous_context(previous_attempts) ==
    IF Len(previous_attempts) > 0
    THEN <<SYNTHESIS_CONTEXT>> \o Str(Len(previous_attempts) + 1)
             \o <<" for this question. The student has previously attempted this ">>
             \o Str(Len(previous_attempts))
             \o <<" time(s).\n\nPrevious Attempts Summary:\n">>
             \o SynthesisAttempts(previous_attempts, 1)
             \o <<SYNTHESIS_COMPARATIVE>>
    ELSE EmptyText

\* json.dumps(evaluations, indent=2): the text of the mapping.
json_dumps(evaluations) == [json |-> evaluations]

\* synthesizer_node from its checks to the retry loop: the PromptTemplate and
\* the values of the chain's invocation.
synthesis_prompt(st) ==
    LET previous_attempts == StateGet(st, "previous_attempts", <<>>)
        has_previous == Len(previous_attempts) > 0
        attempt_number == Len(previous_attempts) + 1
    IN  [template |-> "synthesis",
         values |->
            [task_type |-> StateGet(st, "task_type", <<"IELTS Writing Task">>),
             previous_context |-> synthesis_previous_context(previous_attempts),
             evaluations |-> json_dumps(StateGet(st, "evaluations", EmptyMap)),
             attempt_info |->
                 IF has_previous
                 THEN <<"    *This is your attempt #">> \o Str(attempt_number)
                          \o <<" at this question.*">>
                 ELSE EmptyText,
             comparison_note |->
                 IF has_previous
                 THEN <<"    *Include a brief comparison with your previous attempt(s).*">>
                 ELSE EmptyText,
             comparison_instruction |->
                 IF has_previous
                 THEN <<"If applicable, note improvements or ongoing issues compared to previous attempts">>
                 ELSE EmptyText,
             improvement_focus |->
                 IF has_previous
                 THEN <<"    *Especially focus on areas you struggled with in previous attempts.*">>
                 ELSE EmptyText]]

-----------------------------------------------------------------------------
(* evaluate_essay: from the executor's stream to the EvaluationResponse *)

\* An Optional[str] field of EvaluationResponse.
NoneText == [present |-> FALSE, text |-> EmptyText]
SomeText(t) == [present |-> TRUE, text |-> t]

NotResponded == [status |-> "none", report |-> NoneText, error |-> NoneText]

NO_REPORT_GENERATED == <<"Evaluation completed but no report generated">>

NO_RESULT_GENERATED == <<"No evaluation result was generated">>

\* The executor's stream ends with the last node's event ("updates"), or with
\* one more event holding the whole state under "__end__" ("end_state"): the
\* two forms evaluate_essay provides for.
StreamShapes == {"updates", "end_state"}

StreamOf(evs, st, shape) ==
    IF shape = "end_state"
    THEN Append(evs, [node |-> END, isdict |-> TRUE, value |-> st])
    ELSE evs

NoFinalState == [node |-> "none", isdict |-> FALSE, value |-> EmptyMap]

\* isinstance(node_state, dict) and node_state.get("final_report")
HasReport(ev) == ev.isdict /\ Truthy(StateGet(ev.value, "final_report", EmptyText))

\* The extraction of final_state from the collected events.
extract_final_state(evs) ==
    IF evs = <<>>
    THEN NoFinalState
    ELSE LET last_event == evs[Len(evs)]
         IN  IF last_event.node = END THEN last_event
             ELSE IF last_event.node = "synthesizer" THEN last_event
             ELSE IF \E i \in 1..Len(evs) : HasReport(evs[i])
                  THEN evs[CHOOSE i \in 1..Len(evs) :
                               /\ HasReport(evs[i])
                               /\ \A j \in (i + 1)..Len(evs) : ~HasReport(evs[j])]
                  ELSE NoFinalState

\* "Handle results": the EvaluationResponse built from final_state.
build_response(final_state) ==
    IF final_state.isdict /\ Truthy(final_state.value)
    THEN IF /\ Truthy(StateGet(final_state.value, "final_report", EmptyText))
            /\ ~Truthy(StateGet(final_state.value, "error", EmptyText))
         THEN [status |-> "200", report |-> SomeText(final_state.value.final_report),
               error |-> NoneText]
         ELSE [status |-> "200", report |-> NoneText,
               error |-> SomeText(StateGet(final_state.value, "error",
                                           NO_REPORT_GENERATED))]
    ELSE [status |-> "200", report |-> NoneText, error |-> SomeText(NO_RESULT_GENERATED)]

\* raise HTTPException(500, "Evaluation processing failed")
processing_failed == [status |-> "500", report |-> NoneText, error |-> NoneText]

-----------------------------------------------------------------------------
(* Inputs *)

P_Academic == <<"A", "c", "a", "d", "e", "m", "i", "c", " ">>
P_General == <<"G", "e", "n", "e", "r", "a", "l">>
P_Task1 == <<"T", "a", "s", "k", " ", "1">>
P_Task2 == <<"T", "a", "s", "k", " ", "2">>
P_TASK == <<"T", "A", "S", "K">>
P_One == <<" ", "1">>
P_Two == <<" ", "2">>

CategoryPieces == {P_Academic, P_General, P_Task1, P_Task2, P_TASK, P_One, P_Two}

\* Every concatenation of at most n pieces.
RECURSIVE CategoriesOf(_)
CategoriesOf(n) ==
    IF n = 0
    THEN {EmptyText}
    ELSE CategoriesOf(n - 1)
             \cup {c \o p : c \in CategoriesOf(n - 1), p \in CategoryPieces}

RouterCategories == CategoriesOf(MaxPieces)

\* The categories of the pipeline's runs: task 1, task 2, and one the router rejects.
PipelineCategories == {P_Academic \o P_Task1, P_Academic \o P_Task2, P_General}

EssayTexts == {EmptyText, <<"A", "n", " ", "e", "s", "s", "a", "y">>}

PromptTexts == {EmptyText, <<"The chart shows ...">>}

PriorAttempt(i) ==
    [attempt_number |-> i, word_count |-> 2,
     timestamp |-> <<"2", "0", "2", "5", "-", "0", "1", "-", "0", "1", "T", "0", "9">>,
     essay_text |-> <<"An earlier essay">>,
     evaluation_summary |-> <<"An earlier report">>]

Histories == {[i \in 1..n |-> PriorAttempt(i)] : n \in 0..MaxHistory}

\* The `inputs` evaluate_essay hands to the graph.
Inputs(task_type, prompt_text, essay_text, previous_attempts) ==
    [task_type |-> task_type,
     prompt_text |-> prompt_text,
     essay_text |-> essay_text,
     word_count |-> Len(Split(essay_text)),
     previous_attempts |-> previous_attempts,
     evaluations |-> EmptyMap,
     final_report |-> EmptyText,
     error |-> EmptyText]

\* The same inputs with no task_type key.
InputsWithoutCategory ==
    [prompt_text |-> EmptyText,
     essay_text |-> EmptyText,
     word_count |-> 0,
     previous_attempts |-> <<>>,
     evaluations |-> EmptyMap,
     final_report |-> EmptyText,
     error |-> EmptyText]

\* The rubric registries: each criterion's output_format keys, loaded once.
RubricRegistries ==
    {[c \in Criteria |-> {"band_score"}],
     [c \in Criteria |-> IF c \in {"task_achievement", "task_response"}
                         THEN {"band_score", "feedback"} ELSE {"band_score"}]}

-----------------------------------------------------------------------------
(* The state machine *)

\* No chain prepared, no data-manager call made.
NoPrompt == [template |-> "none", values |-> EmptyMap]
NoCall == [call |-> "none", question_id |-> EmptyText, value |-> [none |-> TRUE]]

\* The parts of the program a specification leaves alone.
IdleText == text = EmptyText /\ sanitized = <<>> /\ max_length = MAX_TEXT_LENGTH
IdleStore ==
    /\ evaluation_history = EmptyMap
    /\ question_bank = {}
    /\ now = 0
    /\ returned = NoCall
IdleConcurrent == heap = <<>> /\ invocations = <<>> /\ rubric_data = EmptyMap

\* MODEL_MAX_RETRIES when the environment does not set it.
DEFAULT_MAX_RETRIES == 3

\* No node has run yet.
InitNodes ==
    /\ phase = "enter"
    /\ attempt = 0
    /\ response = NoResponse
    /\ update = Pending
    /\ outcome = "running"
    /\ nodeCalls = 0
    /\ nodeSleeps = <<>>
    /\ callCount = 0
    /\ visited = <<>>
    /\ failedCalls = 0
    /\ sleepCount = 0
    /\ events = <<>>
    /\ api_response = NotResponded

\* The executor before its first step.
InitExecutor == pc = START /\ InitNodes

InitRun ==
    /\ prompt = NoPrompt
    /\ IdleText
    /\ IdleStore
    /\ IdleConcurrent
    /\ InitExecutor

\* No graph run: the pipeline's variables at rest.
IdlePipeline ==
    /\ state = EmptyMap
    /\ MAX_RETRIES = DEFAULT_MAX_RETRIES
    /\ expected_output_keys = EmptyMap
    /\ caller = "direct"
    /\ InitExecutor

Init ==
    /\ state \in {Inputs(c, p, e, h) : c \in PipelineCategories, p \in PromptTexts,
                                      e \in EssayTexts, h \in Histories}
    /\ MAX_RETRIES \in 1..MaxRetriesConfig
    /\ expected_output_keys \in RubricRegistries
    /\ caller = "direct"
    /\ InitRun

\* The executor takes the conditional entry edge.
Route ==
    /\ pc = START
    /\ pc' = should_evaluate_task_1_or_2(state)
    /\ UNCHANGED <<state, phase, attempt, response, update, outcome, nodeCalls,
                   nodeSleeps, callCount, visited, MAX_RETRIES, expected_output_keys, caller,
                   failedCalls, sleepCount, events, api_response>>
    /\ UNCHANGED <<prompt, textVars, storeVars, concurrentVars>>

\* evaluator_node up to its retry loop: the essay check, then the first attempt.
StageEnter ==
    /\ pc \in EvaluatorNodes
    /\ phase = "enter"
    /\ visited' = Append(visited, pc)
    /\ IF no_essay_text(state)
       THEN /\ update' = evaluator_except(criterion_name(pc), NO_ESSAY)
            /\ outcome' = "rejected"
            /\ phase' = "returned"
       ELSE IF 0 < MAX_RETRIES
            THEN /\ phase' = "invoke"
                 /\ UNCHANGED <<update, outcome>>
            ELSE /\ update' = ReturnedNone
                 /\ outcome' = "fell_through"
                 /\ phase' = "returned"
    /\ prompt' = IF no_essay_text(state)
                  THEN prompt
                  ELSE evaluator_prompt(state, criterion_name(pc))
    /\ attempt' = 0
    /\ UNCHANGED <<state, pc, response, nodeCalls, nodeSleeps, callCount,
                   MAX_RETRIES, expected_output_keys, caller,
                   failedCalls, sleepCount, events, api_response>>
    /\ UNCHANGED <<textVars, storeVars, concurrentVars>>

\* One pass of evaluator_node's loop body: the call, the validation, and either
\* the return, the raise of the last attempt, or the way to the backoff sleep.
StageInvoke ==
    /\ pc \in EvaluatorNodes
    /\ phase = "invoke"
    /\ \E resp \in ChainResponses :
        /\ response' = resp
        /\ nodeCalls' = nodeCalls + 1
        /\ callCount' = callCount + 1
        /\ IF /\ resp.kind = "result"
              /\ validate_json_output(resp.result, expected_output_keys[criterion_name(pc)])
           THEN LET current_evaluations ==
                        Put(StateGet(state, "evaluations", EmptyMap),
                            criterion_name(pc), resp.result)
                IN  /\ state' = [state EXCEPT !.evaluations = current_evaluations]
                    /\ update' = Returned([evaluations |-> current_evaluations])
                    /\ outcome' = "success"
                    /\ phase' = "returned"
                    /\ UNCHANGED failedCalls
           ELSE /\ failedCalls' = failedCalls + 1
                /\ IF IsLastAttempt(attempt, MAX_RETRIES)
                   THEN /\ update' = evaluator_except(criterion_name(pc), RaisedMessage(resp))
                        /\ outcome' = "exhausted"
                        /\ phase' = "returned"
                        /\ UNCHANGED state
                   ELSE /\ phase' = "sleep"
                        /\ UNCHANGED <<state, update, outcome>>
    /\ UNCHANGED <<pc, attempt, nodeSleeps, visited, MAX_RETRIES, expected_output_keys, caller,
                   sleepCount, events, api_response>>
    /\ UNCHANGED <<prompt, textVars, storeVars, concurrentVars>>

\* time.sleep(2 ** attempt), then the loop's next value of attempt, if any.
StageSleep ==
    /\ pc \in EvaluatorNodes
    /\ phase = "sleep"
    /\ nodeSleeps' = Append(nodeSleeps, Backoff(attempt))
    /\ sleepCount' = sleepCount + 1
    /\ attempt' = attempt + 1
    /\ IF attempt + 1 < MAX_RETRIES
       THEN /\ phase' = "invoke"
            /\ UNCHANGED <<update, outcome>>
       ELSE /\ update' = ReturnedNone
            /\ outcome' = "fell_through"
            /\ phase' = "returned"
    /\ UNCHANGED <<state, pc, response, nodeCalls, callCount, visited,
                   MAX_RETRIES, expected_output_keys, caller,
                   failedCalls, events, api_response>>
    /\ UNCHANGED <<prompt, textVars, storeVars, concurrentVars>>

\* synthesizer_node up to its retry loop: the error check and the evaluations check.
SynthEnter ==
    /\ pc = "synthesizer"
    /\ phase = "enter"
    /\ visited' = Append(visited, pc)
    /\ IF previous_error(state)
       THEN /\ update' = synthesizer_previous_error(state)
            /\ outcome' = "skipped"
            /\ phase' = "returned"
       ELSE IF no_evaluations(state)
            THEN /\ update' = synthesizer_except(NO_EVALUATIONS)
                 /\ outcome' = "rejected"
                 /\ phase' = "returned"
            ELSE IF 0 < MAX_RETRIES
                 THEN /\ phase' = "invoke"
                      /\ UNCHANGED <<update, outcome>>
                 ELSE /\ update' = ReturnedNone
                      /\ outcome' = "fell_through"
                      /\ phase' = "returned"
    /\ prompt' = IF \/ previous_error(state)
                     \/ no_evaluations(state)
                  THEN prompt
                  ELSE synthesis_prompt(state)
    /\ attempt' = 0
    /\ UNCHANGED <<state, pc, response, nodeCalls, nodeSleeps, callCount,
                   MAX_RETRIES, expected_output_keys, caller,
                   failedCalls, sleepCount, events, api_response>>
    /\ UNCHANGED <<textVars, storeVars, concurrentVars>>

\* One pass of synthesizer_node's loop body.
SynthInvoke ==
    /\ pc = "synthesizer"
    /\ phase = "invoke"
    /\ \E resp \in LLMResponses :
        /\ response' = resp
        /\ nodeCalls' = nodeCalls + 1
        /\ callCount' = callCount + 1
        /\ IF resp.kind = "result"
           THEN /\ update' = synthesizer_report(resp.result)
                /\ outcome' = "success"
                /\ phase' = "returned"
                /\ UNCHANGED failedCalls
           ELSE /\ failedCalls' = failedCalls + 1
                /\ IF IsLastAttempt(attempt, MAX_RETRIES)
                   THEN /\ update' = synthesizer_except(resp.msg)
                        /\ outcome' = "exhausted"
                        /\ phase' = "returned"
                   ELSE /\ phase' = "sleep"
                        /\ UNCHANGED <<update, outcome>>
    /\ UNCHANGED <<state, pc, attempt, nodeSleeps, visited, MAX_RETRIES,
                   expected_output_keys, caller,
                   sleepCount, events, api_response>>
    /\ UNCHANGED <<prompt, textVars, storeVars, concurrentVars>>

\* time.sleep(2 ** attempt) of the synthesizer's loop.
SynthSleep ==
    /\ pc = "synthesizer"
    /\ phase = "sleep"
    /\ nodeSleeps' = Append(nodeSleeps, Backoff(attempt))
    /\ sleepCount' = sleepCount + 1
    /\ attempt' = attempt + 1
    /\ IF attempt + 1 < MAX_RETRIES
       THEN /\ phase' = "invoke"
            /\ UNCHANGED <<update, outcome>>
       ELSE /\ update' = ReturnedNone
            /\ outcome' = "fell_through"
            /\ phase' = "returned"
    /\ UNCHANGED <<state, pc, response, nodeCalls, callCount, visited,
                   MAX_RETRIES, expected_output_keys, caller,
                   failedCalls, events, api_response>>
    /\ UNCHANGED <<prompt, textVars, storeVars, concurrentVars>>

\* handle_error_node
HandleError ==
    /\ pc = "handle_error"
    /\ phase = "enter"
    /\ visited' = Append(visited, pc)
    /\ LET error_message == StateGet(state, "error", DEFAULT_ERROR)
       IN  update' = Returned([error |-> error_message,
                               final_report |-> ErrorWrapper(error_message)])
    /\ outcome' = "terminal"
    /\ phase' = "returned"
    /\ UNCHANGED <<state, pc, attempt, response, nodeCalls, nodeSleeps, callCount,
                   MAX_RETRIES, expected_output_keys, caller,
                   failedCalls, sleepCount, events, api_response>>
    /\ UNCHANGED <<prompt, textVars, storeVars, concurrentVars>>

\* The executor applies the node's update to the channels and follows the
\* node's edge; an exception leaving a node ends the run.
Merge ==
    /\ pc \in EvaluatorNodes \cup {"synthesizer", "handle_error"}
    /\ phase = "returned"
    /\ state' = ApplyUpdate(state, update)
    /\ pc' = IF update.kind = "raise" THEN "__raised__" ELSE NextNode(pc)
    /\ phase' = "enter"
    /\ attempt' = 0
    /\ response' = NoResponse
    /\ update' = Pending
    /\ outcome' = "running"
    /\ nodeCalls' = 0
    /\ nodeSleeps' = <<>>
    /\ events' = IF caller = "evaluate_essay"
                  THEN Append(events, StreamEvent(pc, update))
                  ELSE events
    /\ prompt' = NoPrompt
    /\ UNCHANGED <<callCount, visited, MAX_RETRIES, expected_output_keys, caller,
                   failedCalls, sleepCount, api_response>>
    /\ UNCHANGED <<textVars, storeVars, concurrentVars>>

\* evaluate_essay after the stream: final_state, then the response.
Respond ==
    /\ caller = "evaluate_essay"
    /\ pc \in {END, "__raised__"}
    /\ IF pc = "__raised__"
       THEN api_response' = processing_failed
       ELSE \E shape \in StreamShapes :
                api_response' = build_response(
                                    extract_final_state(StreamOf(events, state, shape)))
    /\ pc' = "responded"
    /\ UNCHANGED <<state, phase, attempt, response, update, outcome, nodeCalls,
                   nodeSleeps, callCount, visited, failedCalls, sleepCount, events,
                   MAX_RETRIES, expected_output_keys, caller>>
    /\ UNCHANGED <<prompt, textVars, storeVars, concurrentVars>>

Next ==
    \/ Route
    \/ StageEnter
    \/ StageInvoke
    \/ StageSleep
    \/ SynthEnter
    \/ SynthInvoke
    \/ SynthSleep
    \/ HandleError
    \/ Merge

Spec == Init /\ [][Next]_vars

\* The same runs with MODEL_MAX_RETRIES from 0: a loop of no passes.
InitAnyRetries ==
    /\ state \in {Inputs(c, p, e, h) : c \in PipelineCategories, p \in PromptTexts,
                                      e \in EssayTexts, h \in Histories}
    /\ MAX_RETRIES \in 0..MaxRetriesConfig
    /\ expected_output_keys \in RubricRegistries
    /\ caller = "direct"
    /\ InitRun

SpecAnyRetries == InitAnyRetries /\ [][Next]_vars

\* evaluate_essay: a validated request (one of the four task types, an essay
\* of words), the graph run through astream, then the response.
P_Training == <<" ", "T", "r", "a", "i", "n", "i", "n", "g", " ">>

ValidTaskTypes ==
    {P_Academic \o P_Task1, P_Academic \o P_Task2,
     P_General \o P_Training \o P_Task1, P_General \o P_Training \o P_Task2}

InitEvaluate ==
    /\ state \in {Inputs(c, p, e, h) : c \in ValidTaskTypes,
                                      p \in PromptTexts \ {EmptyText},
                                      e \in EssayTexts \ {EmptyText}, h \in Histories}
    /\ MAX_RETRIES = DEFAULT_MAX_RETRIES
    /\ expected_output_keys \in RubricRegistries
    /\ caller = "evaluate_essay"
    /\ InitRun

\* The error terminal is out of reach of a validated task type.
NextEvaluate ==
    \/ Route
    \/ StageEnter
    \/ StageInvoke
    \/ StageSleep
    \/ SynthEnter
    \/ SynthInvoke
    \/ SynthSleep
    \/ Merge
    \/ Respond

SpecEvaluate == InitEvaluate /\ [][NextEvaluate]_vars

\* Every step the code can take is eventually taken: a call returns or fails,
\* a sleep ends, the executor goes on.
\* The prompt text and the history go into the prompts only, never into a
\* condition: the runs below leave them empty.
InitTermination ==
    /\ state \in {Inputs(c, EmptyText, e, <<>>) : c \in PipelineCategories,
                                                  e \in EssayTexts}
    /\ MAX_RETRIES \in 1..MaxRetriesConfig
    /\ expected_output_keys \in RubricRegistries
    /\ caller = "direct"
    /\ InitRun

FairSpec == InitTermination /\ [][Next]_vars /\ WF_vars(Next)

-----------------------------------------------------------------------------
(* The synthesizer on its own: synthesizer_node called with a state of any   *)
(* evaluations, error and history                                            *)

\* datetime.now().isoformat()
ISO_TIMESTAMP ==
    <<"2", "0", "2", "5", "-", "0", "3", "-", "0", "4", "T", "1", "0", ":", "1", "1",
      ":", "1", "2", ".", "0", "0", "0", "1", "2", "3">>

\* `[:500]` of evaluate_essay's evaluation_summary.
SUMMARY_LENGTH == 500

\* A report of more than 500 characters, as evaluate_essay cuts it: 500
\* characters and "...".
LONG_SUMMARY ==
    [k \in 1..SUMMARY_LENGTH |-> Digits[(k % 10) + 1]] \o <<".", ".", ".">>

\* The prior attempts evaluate_essay builds from the stored evaluations: one
\* with a timestamp, a word count and a short report, one of a record with no
\* timestamp, no words and a long report.
StoredAttempt(shape, i) ==
    IF shape = "short"
    THEN [attempt_number |-> i, word_count |-> 250, timestamp |-> ISO_TIMESTAMP,
          essay_text |-> <<"An earlier essay">>,
          evaluation_summary |-> <<"G", "o", "o", "d", ".">>]
    ELSE [attempt_number |-> i, word_count |-> 0, timestamp |-> EmptyText,
          essay_text |-> EmptyText,
          evaluation_summary |-> LONG_SUMMARY]

SynthesisHistories ==
    UNION {{[i \in 1..n |-> StoredAttempt(shapes[i], i)] :
                shapes \in [1..n -> {"short", "long"}]} : n \in 0..MaxAttempts}

\* A validated result of a stage.
SampleResult == [type |-> "dict", keys |-> {"band_score"}]

\* The evaluations a caller of synthesizer_node may hand over: any of the criteria.
EvaluationSets == {[c \in cs |-> SampleResult] : cs \in SUBSET Criteria}

InitSynthesizer ==
    /\ state \in {[Inputs(c, EmptyText, <<"A", "n", " ", "e", "s", "s", "a", "y">>, h)
                       EXCEPT !.evaluations = evs, !.error = err] :
                       c \in PipelineCategories, h \in SynthesisHistories,
                       evs \in EvaluationSets,
                       err \in {EmptyText, FailedDuring("lexical_resource", NO_ESSAY)}}
    /\ MAX_RETRIES \in 1..MaxRetriesConfig
    /\ expected_output_keys \in {[c \in Criteria |-> {"band_score"}]}
    /\ caller = "direct"
    /\ pc = "synthesizer"
    /\ InitNodes
    /\ prompt = NoPrompt
    /\ IdleText
    /\ IdleStore
    /\ IdleConcurrent

NextSynthesizer ==
    \/ SynthEnter
    \/ SynthInvoke
    \/ SynthSleep
    \/ Merge

SpecSynthesizer == InitSynthesizer /\ [][NextSynthesizer]_vars

-----------------------------------------------------------------------------
(* Concurrent requests: every evaluate_essay call streams the one compiled   *)
(* graph with its own inputs. `heap` holds the dict objects the states refer *)
(* to, `invocations` the state and the position of each request.             *)

\* A request that has not arrived.
Idle == [pc |-> "idle", state |-> EmptyMap]

\* Inputs that hand one module-level dict to every request.
shared_evaluations(h, i) == 1

\* `"evaluations": {}` of evaluate_essay's inputs: a new dict, an object that
\* no other state refers to, named after the request that made it.
new_evaluations(h, i) == i

\* The state as a node reads it: the evaluations are the dict referred to.
Deref(st) == [st EXCEPT !.evaluations = heap[st.evaluations]]

\* The rubrics create_evaluator_node loaded when the module was imported.
LoadedRubrics ==
    [c \in Criteria |-> [criterion |-> c, output_format |-> {"band_score"},
                         word_count |-> "{word_count}"]]

InitConcurrent ==
    /\ heap = <<>>
    /\ invocations = [i \in 1..MaxInvocations |-> Idle]
    /\ rubric_data = LoadedRubrics
    /\ IdlePipeline
    /\ prompt = NoPrompt
    /\ IdleText
    /\ IdleStore

\* evaluate_essay builds its inputs and the stream starts: the router chooses
\* the first node.
Request(i) ==
    /\ invocations[i].pc = "idle"
    /\ \E c \in PipelineCategories :
        LET ref == new_evaluations(heap, i)
            inputs == [Inputs(c, EmptyText, <<"A", "n", " ", "e", "s", "s", "a", "y">>, <<>>)
                          EXCEPT !.evaluations = ref]
        IN  /\ heap' = IF ref \in DOMAIN heap THEN heap ELSE (ref :> EmptyMap) @@ heap
            /\ invocations' = [invocations EXCEPT
                                  ![i] = [pc |-> should_evaluate_task_1_or_2(inputs),
                                          state |-> inputs]]
    /\ UNCHANGED <<pipelineVars, prompt, textVars, storeVars, rubric_data>>

\* evaluator_node of request i and the merge of what it returns: the result is
\* written into the dict the state refers to, or the error is returned.
Stage(i) ==
    LET st == invocations[i].state
        node == invocations[i].pc
        criterion == criterion_name(node)
        filled_rubric == prepare_rubric_with_word_count(criterion, st.word_count)
    IN  /\ node \in EvaluatorNodes
        /\ \/ /\ validate_json_output(SampleResult, rubric_data[criterion].output_format)
              /\ heap' = [heap EXCEPT ![st.evaluations] = Put(@, criterion, SampleResult)]
              /\ invocations' = [invocations EXCEPT
                    ![i] = [pc |-> NextNode(node),
                            state |-> ApplyUpdate(st, Returned([evaluations |-> st.evaluations]))]]
           \/ /\ UNCHANGED heap
              /\ invocations' = [invocations EXCEPT
                    ![i] = [pc |-> NextNode(node),
                            state |-> ApplyUpdate(st,
                                evaluator_except(criterion, <<"Request timed out">>))]]
        /\ UNCHANGED <<pipelineVars, prompt, textVars, storeVars, rubric_data>>

\* synthesizer_node of request i and the merge of what it returns.
Synthesize(i) ==
    LET st == invocations[i].state
    IN  /\ invocations[i].pc = "synthesizer"
        /\ \E u \in IF Truthy(StateGet(st, "error", EmptyText))
                     THEN {synthesizer_previous_error(st)}
                     ELSE IF no_evaluations(Deref(st))
                          THEN {synthesizer_except(NO_EVALUATIONS)}
                          ELSE {synthesizer_report(<<"# Your Overall Band Score ...">>),
                                synthesizer_except(<<"Request timed out">>)} :
              invocations' = [invocations EXCEPT
                    ![i] = [pc |-> NextNode("synthesizer"), state |-> ApplyUpdate(st, u)]]
        /\ UNCHANGED <<heap, pipelineVars, prompt, textVars, storeVars, rubric_data>>

\* handle_error_node of request i and the merge of what it returns.
Terminal(i) ==
    LET st == invocations[i].state
        error_message == StateGet(st, "error", DEFAULT_ERROR)
    IN  /\ invocations[i].pc = "handle_error"
        /\ invocations' = [invocations EXCEPT
              ![i] = [pc |-> NextNode("handle_error"),
                      state |-> ApplyUpdate(st,
                          Returned([error |-> error_message,
                                    final_report |-> ErrorWrapper(error_message)]))]]
        /\ UNCHANGED <<heap, pipelineVars, prompt, textVars, storeVars, rubric_data>>

NextConcurrent ==
    \E i \in 1..MaxInvocations :
        \/ Request(i)
        \/ Stage(i)
        \/ Synthesize(i)
        \/ Terminal(i)

SpecConcurrent == InitConcurrent /\ [][NextConcurrent]_vars

-----------------------------------------------------------------------------
(* The data manager and its endpoints. A file of evaluation_history is its   *)
(* name without ".json" and its JSON content; question_bank holds the ids of *)
(* the question files. No file operation fails.                              *)

\* The ids _generate_question_id yields: hexadecimal digits.
BankIds == {<<"a">>, <<"c">>}

\* The question_id of a request is any string.
QuestionIds == BankIds \cup {<<"a", "_", "b">>}

\* The questions the essays are written for.
AnsweredIds == {<<"a">>, <<"a", "_", "b">>}

StoredEssays == {<<"First essay">>, <<"Second essay">>}

\* datetime.now().strftime("%Y%m%d_%H%M%S") at instant t.
Stamp(t) ==
    <<"2", "0", "2", "5", "0", "3", "0", "4", "_", "1", "0", "1", "1", "0">>
        \o Str(t \div TicksPerSecond)

\* A file name matches the pattern f"{question_id}_*.json".
glob_matches(question_id, name) ==
    LET head == question_id \o <<"_">>
    IN  Len(head) <= Len(name) /\ SubSeq(name, 1, Len(head)) = head

\* The files self.evaluation_history_dir.glob(f"{question_id}_*.json") yields.
glob(question_id) ==
    {name \in DOMAIN evaluation_history : glob_matches(question_id, name)}

\* get_question: the question, or None.
get_question(question_id) ==
    IF question_id \in question_bank
    THEN [question_id |-> question_id]
    ELSE NoneText

\* get_evaluation_history: the lists the sort by timestamp may yield, the
\* files of equal timestamps in any order.
get_evaluation_history(question_id) ==
    LET files == glob(question_id)
    IN  {[i \in 1..Cardinality(files) |-> evaluation_history[order[i]]] :
            order \in {o \in [1..Cardinality(files) -> files] :
                          /\ \A i, j \in DOMAIN o : i # j => o[i] # o[j]
                          /\ \A i, j \in DOMAIN o :
                                i < j => evaluation_history[o[i]].timestamp
                                            <= evaluation_history[o[j]].timestamp}}

\* `[:200]` of evaluate_essay's essay excerpt.
ESSAY_EXCERPT == 200

\* h.get(key, "")[:n] + "..." if len(h.get(key, "")) > n else h.get(key, "")
Excerpt(t, n) == IF Len(t) > n THEN Take(t, n) \o <<".", ".", ".">> ELSE t

\* evaluate_essay's previous_attempts of a history.
previous_attempts_of(history) ==
    [i \in 1..Len(history) |->
        [attempt_number |-> i,
         word_count |-> history[i].word_count,
         timestamp |-> history[i].timestamp,
         essay_text |-> Excerpt(history[i].essay_text, ESSAY_EXCERPT),
         evaluation_summary |-> Excerpt(history[i].evaluation_report, SUMMARY_LENGTH)]]

InitStore ==
    /\ IdleStore
    /\ IdlePipeline
    /\ prompt = NoPrompt
    /\ IdleText
    /\ IdleConcurrent

\* Time passes.
Tick ==
    /\ now < MaxTicks
    /\ now' = now + 1
    /\ UNCHANGED <<evaluation_history, question_bank, returned>>
    /\ UNCHANGED <<pipelineVars, prompt, textVars, concurrentVars>>

\* POST /questions/save
SaveQuestion ==
    /\ \E question_id \in BankIds :
        /\ question_bank' = question_bank \cup {question_id}
        /\ returned' = [call |-> "save_question", question_id |-> question_id,
                        value |-> [question_id |-> question_id]]
    /\ UNCHANGED <<evaluation_history, now>>
    /\ UNCHANGED <<pipelineVars, prompt, textVars, concurrentVars>>

\* POST /evaluations/save
SaveEvaluation ==
    /\ \E question_id \in AnsweredIds, essay_text \in StoredEssays, word_count \in {250} :
        LET evaluation_id == question_id \o <<"_">> \o Stamp(now)
            evaluation_data == [evaluation_id |-> evaluation_id,
                                question_id |-> question_id,
                                essay_text |-> essay_text,
                                evaluation_report |-> <<"# Your Overall Band Score ...">>,
                                word_count |-> word_count,
                                timestamp |-> now]
        IN  /\ evaluation_history' =
                    [name \in DOMAIN evaluation_history \cup {evaluation_id} |->
                        IF name = evaluation_id THEN evaluation_data
                        ELSE evaluation_history[name]]
            /\ returned' = [call |-> "save_evaluation", question_id |-> question_id,
                            value |-> [evaluation_id |-> evaluation_id]]
    /\ UNCHANGED <<question_bank, now>>
    /\ UNCHANGED <<pipelineVars, prompt, textVars, concurrentVars>>

\* DELETE /questions/{question_id}
DeleteQuestion ==
    /\ \E question_id \in QuestionIds :
        LET success == TRUE
        IN  /\ question_bank' = question_bank \ {question_id}
            /\ evaluation_history' =
                    [name \in DOMAIN evaluation_history \ glob(question_id) |->
                        evaluation_history[name]]
            /\ returned' = [call |-> "delete_question", question_id |-> question_id,
                            value |-> [status_code |-> IF success THEN 200 ELSE 404]]
    /\ UNCHANGED now
    /\ UNCHANGED <<pipelineVars, prompt, textVars, concurrentVars>>

\* evaluate_essay fetches the history of request.question_id and builds
\* previous_attempts.
FetchHistory ==
    /\ \E question_id \in QuestionIds :
        \E history \in get_evaluation_history(question_id) :
            returned' = [call |-> "get_evaluation_history", question_id |-> question_id,
                         value |-> [history |-> history,
                                    previous_attempts |-> previous_attempts_of(history)]]
    /\ UNCHANGED <<evaluation_history, question_bank, now>>
    /\ UNCHANGED <<pipelineVars, prompt, textVars, concurrentVars>>

NextStore ==
    \/ Tick
    \/ SaveQuestion
    \/ SaveEvaluation
    \/ DeleteQuestion
    \/ FetchHistory

SpecStore == InitStore /\ [][NextStore]_vars

-----------------------------------------------------------------------------
(* sanitize_text on its own *)

TextAlphabet == {"a", " ", "\n"}

\* Every text of at most n characters of TextAlphabet.
RECURSIVE TextsUpTo(_)
TextsUpTo(n) ==
    IF n = 0
    THEN {EmptyText}
    ELSE TextsUpTo(n - 1)
             \cup {Append(t, c) : t \in TextsUpTo(n - 1), c \in TextAlphabet}

\* The code's limit, and limits short enough for the texts to reach and pass.
TextLimits == {MAX_TEXT_LENGTH} \cup 1..(MaxTextLen - 1)

InitSanitize ==
    /\ text \in TextsUpTo(MaxTextLen)
    /\ max_length \in TextLimits
    /\ sanitized = <<>>
    /\ prompt = NoPrompt
    /\ IdlePipeline
    /\ IdleStore
    /\ IdleConcurrent

\* sanitize_text applied to the text, then to its own result.
SanitizeText ==
    /\ Len(sanitized) < 2
    /\ LET argument == IF sanitized = <<>> THEN text ELSE sanitized[Len(sanitized)]
       IN  sanitized' = Append(sanitized, sanitize_text_upto(argument, max_length))
    /\ UNCHANGED <<text, max_length, prompt, pipelineVars, storeVars, concurrentVars>>

SpecSanitize == InitSanitize /\ [][SanitizeText]_vars

-----------------------------------------------------------------------------
(* The router on its own: every category of RouterCategories, and no category *)

InitRouter ==
    /\ state \in {Inputs(c, EmptyText, EmptyText, <<>>) : c \in RouterCategories}
                     \cup {InputsWithoutCategory}
    /\ MAX_RETRIES = MaxRetriesConfig
    /\ expected_output_keys \in {[c \in Criteria |-> {"band_score"}]}
    /\ caller = "direct"
    /\ InitRun

SpecRouter == InitRouter /\ [][Route]_vars

-----------------------------------------------------------------------------
(* Vocabulary of the properties *)

\* A capital letter and its small letter.
CasePairs == {{UpperCase[k], LowerCase[k]} : k \in 1..Len(UpperCase)}

\* Two characters that are the same letter, whatever their case.
SameLetter(a, b) == a = b \/ {a, b} \in CasePairs

\* s contains pat, compared letter by letter without regard to case.
ContainsIgnoringCase(pat, s) ==
    \E i \in 0..(Len(s) - Len(pat)) :
        \A j \in 1..Len(pat) : SameLetter(s[i + j], pat[j])

Category == StateGet(state, "task_type", EmptyText)

IsTask1 == ContainsIgnoringCase(TASK_1, Category)
IsTask2 == ContainsIgnoringCase(TASK_2, Category)

InStage == pc \in EvaluatorNodes

\* The schema of the stage the executor is at.
StageSchema == expected_output_keys[criterion_name(pc)]

\* The stage's last response is a mapping.
ResponseIsMapping == response.kind = "result" /\ response.result.type = "dict"

\* 1, 2, 4, ...: n sleeps, the i-th (from 0) of 2^i seconds.
ExponentialDelays(n) == [i \in 1..n |-> 2 ^ (i - 1)]

-----------------------------------------------------------------------------
(* C1..C10 *)

\* C1: once errorMessage is non-empty, no evaluation stage executes: no stage
\* is past its entry while the error channel holds a message.
C1_NoStageRunsAfterError ==
    ~(InStage /\ phase # "enter" /\ Truthy(state.error))

\* C2: for a category containing neither "task 1" nor "task 2" (ignoring case),
\* the run ends through the error terminal alone, with a non-empty errorMessage,
\* finalReport the diagnostic wrapper around that message, and no generation call.
C2_UnroutableCategoryDiagnosed ==
    (pc = END /\ ~IsTask1 /\ ~IsTask2)
        => /\ visited = <<"handle_error">>
           /\ Truthy(state.error)
           /\ state.final_report = ErrorWrapper(state.error)
           /\ callCount = 0

\* C3: the router is total and never raises: it selects the task-achievement
\* stage iff the category contains "task 1" ignoring case, otherwise the
\* task-response stage iff it contains "task 2", otherwise the error terminal;
\* a missing category goes to the error terminal.
C3_RouterTotal ==
    pc # START
        => /\ pc = (IF IsTask1 THEN "evaluate_task_achievement_t1"
                    ELSE IF IsTask2 THEN "evaluate_task_response_t2"
                    ELSE "handle_error")
           /\ ("task_type" \notin DOMAIN state => pc = "handle_error")

\* A category with both substrings, "task 2" first, was routed to task achievement.
C3_Witness ==
    /\ pc = "evaluate_task_achievement_t1"
    /\ IsTask2
    /\ ~IsSubstring(TASK_1, Category)
    /\ SubSeq(Lower(Category), 1, Len(TASK_2)) = TASK_2

\* C4: at completion finalReport and errorMessage are not both empty.
C4_ReportOrErrorAtCompletion ==
    pc = END => (Truthy(state.final_report) \/ Truthy(state.error))

\* C5: with an empty document every stage that executes rejects before its
\* retry loop: no generation call, no sleep, an update holding only a non-empty
\* errorMessage; the invocation makes no generation call at all.
C5_EmptyDocumentNoCalls ==
    state.essay_text = EmptyText
        => /\ callCount = 0
           /\ nodeCalls = 0
           /\ nodeSleeps = <<>>
           /\ phase \notin {"invoke", "sleep"}
           /\ (InStage /\ phase = "returned")
                  => /\ update.kind = "dict"
                     /\ DOMAIN update.val = {"error"}
                     /\ Truthy(update.val.error)

\* The last stage of the chain has rejected an empty document.
C5_Witness ==
    /\ state.essay_text = EmptyText
    /\ pc = "evaluate_grammatical_range"
    /\ phase = "returned"
    /\ outcome = "rejected"
    /\ Len(visited) = 4

\* C6: a task-1 category with an empty document ends with errorMessage set,
\* finalReport the error terminal's wrapper around that errorMessage, and no
\* generation call.
C6_Task1EmptyDocumentWrapper ==
    (pc = END /\ IsTask1 /\ state.essay_text = EmptyText)
        => /\ Truthy(state.error)
           /\ state.final_report = ErrorWrapper(state.error)
           /\ callCount = 0

C8_ExhaustionAttemptsAndBackoff ==
    InStage
        => /\ outcome \in {"running", "exhausted"}
                  => /\ nodeSleeps = ExponentialDelays(Len(nodeSleeps))
                     /\ nodeCalls <= MAX_RETRIES
                     /\ Len(nodeSleeps) <= nodeCalls
                     /\ nodeCalls <= Len(nodeSleeps) + 1
           /\ outcome = "exhausted"
                  => /\ nodeCalls = MAX_RETRIES
                     /\ nodeSleeps = ExponentialDelays(MAX_RETRIES - 1)
           /\ (phase = "returned" /\ outcome \notin {"success", "rejected"})
                  => outcome = "exhausted"

\* A stage configured for three attempts failed three times, having slept 1 s and 2 s.
C8_Witness ==
    /\ InStage
    /\ outcome = "exhausted"
    /\ MAX_RETRIES = 3
    /\ nodeCalls = 3
    /\ nodeSleeps = <<1, 2>>

\* C9: with MAX_RETRIES >= 1 every node returns a state update record: a
\* non-empty dict over evaluations, final_report and error; no node returns
\* nothing and no exception leaves a node.
C9_NodesReturnWellFormedUpdates ==
    /\ pc # "__raised__"
    /\ phase = "returned"
           => /\ update.kind = "dict"
              /\ DOMAIN update.val # {}
              /\ DOMAIN update.val \subseteq {"evaluations", "final_report", "error"}

\* The synthesizer returned after its last generation call failed.
C9_Witness ==
    /\ pc = "synthesizer"
    /\ phase = "returned"
    /\ outcome = "exhausted"
    /\ response.kind = "error"

\* The update of a stage that exhausted its retries: only errorMessage, naming
\* the stage's criterion.
C10_ExhaustedUpdate ==
    (InStage /\ outcome = "exhausted")
        => /\ update.kind = "dict"
           /\ DOMAIN update.val = {"error"}
           /\ \E i \in 1..Len(update.val.error) :
                  update.val.error[i] = criterion_name(pc)

\* Neither the attempt that exhausts a stage nor the merge of its update
\* changes the evaluations; the merge sets errorMessage to the update's.
C10_ExhaustedStep ==
    /\ (InStage' /\ outcome' = "exhausted") => state'.evaluations = state.evaluations
    /\ (InStage /\ outcome = "exhausted")
           => /\ state'.evaluations = state.evaluations
              /\ state'.error = update.val.error
              /\ pc' = NextNode(pc)

\* C10: a stage that exhausts its retries returns an update whose only field
\* is errorMessage, naming that stage's criterion; it does not raise, and the
\* evaluations recorded by earlier stages are left unchanged.
C10_ExhaustionLeavesEvaluations ==
    [](C10_ExhaustedUpdate) /\ [][C10_ExhaustedStep]_vars

\* A stage exhausted its retries after an earlier stage had recorded its result.
C10_Witness ==
    /\ InStage
    /\ outcome = "exhausted"
    /\ Truthy(state.evaluations)
    /\ criterion_name(pc) \notin DOMAIN state.evaluations

-----------------------------------------------------------------------------
(* C11..C20 *)

\* The fields of the state other than evaluations.
OtherFields == {"task_type", "prompt_text", "essay_text", "word_count",
                "previous_attempts", "final_report", "error"}

\* A stage that succeeded returns the single field evaluations, holding the
\* validated result under the stage's criterion.
C11_SuccessUpdate ==
    (InStage /\ outcome = "success")
        => /\ update.kind = "dict"
           /\ DOMAIN update.val = {"evaluations"}
           /\ criterion_name(pc) \in DOMAIN update.val.evaluations
           /\ update.val.evaluations[criterion_name(pc)] = response.result
           /\ validate_json_output(response.result, StageSchema)

\* The succeeding attempt adds the stage's entry to the evaluations it found
\* and keeps the others; it and the merge of its update change no other field.
C11_SuccessStep ==
    /\ (InStage' /\ outcome' = "success")
           => /\ DOMAIN update'.val.evaluations
                      = DOMAIN state.evaluations \cup {criterion_name(pc)}
              /\ \A k \in DOMAIN state.evaluations \ {criterion_name(pc)} :
                      update'.val.evaluations[k] = state.evaluations[k]
              /\ \A f \in OtherFields : state'[f] = state[f]
    /\ (InStage /\ outcome = "success")
           => /\ state'.evaluations = update.val.evaluations
              /\ \A f \in OtherFields : state'[f] = state[f]

\* C11: a stage that succeeds adds exactly the entry {its criterion name: the
\* validated result} to evaluations, keeps every entry recorded by earlier
\* stages, and changes no other state field.
C11_StageSuccessFrame ==
    [](C11_SuccessUpdate) /\ [][C11_SuccessStep]_vars

\* A stage succeeded after an earlier stage had recorded its result.
C11_Witness ==
    /\ InStage
    /\ outcome = "success"
    /\ Cardinality(DOMAIN update.val.evaluations) >= 2

\* C12: a synthesizer entered with a non-empty errorMessage makes no generation
\* call and no sleep, sets finalReport to the fixed generic-error report and
\* returns errorMessage with the value it had on entry.
C12_SynthesizerSkipsOnError ==
    (pc = "synthesizer" /\ Truthy(state.error))
        => /\ nodeCalls = 0
           /\ nodeSleeps = <<>>
           /\ phase \in {"enter", "returned"}
           /\ phase = "returned"
                  => update = Returned([final_report |-> GENERIC_ERROR_REPORT,
                                        error |-> state.error])

\* The synthesizer returned after a stage had set errorMessage.
C12_Witness ==
    /\ pc = "synthesizer"
    /\ phase = "returned"
    /\ Truthy(state.error)
    /\ Truthy(state.evaluations)

\* C13: a synthesizer entered with errorMessage unset and evaluations empty
\* makes no generation call, returns the static fallback report as finalReport
\* and a synthesis-failure diagnostic as errorMessage, and does not raise.
C13_SynthesizerEmptyEvaluations ==
    (pc = "synthesizer" /\ ~Truthy(state.error) /\ ~Truthy(state.evaluations))
        => /\ nodeCalls = 0
           /\ nodeSleeps = <<>>
           /\ phase \in {"enter", "returned"}
           /\ phase = "returned"
                  => /\ update.kind = "dict"
                     /\ DOMAIN update.val = {"final_report", "error"}
                     /\ update.val.final_report = fallback_report
                     /\ update.val.error = SynthesisError(NO_EVALUATIONS)
                     /\ Truthy(update.val.error)

\* The synthesizer returned having found no error and no evaluation.
C13_Witness ==
    /\ pc = "synthesizer"
    /\ phase = "returned"
    /\ ~Truthy(state.error)
    /\ ~Truthy(state.evaluations)
    /\ Truthy(state.essay_text)

\* At least one generation call of the synthesizer, and the last one failed:
\* every call so far failed, since a call that succeeds ends the node.
SynthesisFailing == pc = "synthesizer" /\ nodeCalls > 0 /\ response.kind = "error"

\* C14: a synthesizer whose every generation call fails makes exactly
\* MAX_RETRIES attempts, sleeps 2^i seconds between attempt i and attempt i+1
\* and not after the last, then returns the static fallback report with a
\* synthesis-failure diagnostic as errorMessage; it never raises.
C14_SynthesisExhaustion ==
    /\ SynthesisFailing
           => /\ nodeCalls <= MAX_RETRIES
              /\ nodeSleeps = ExponentialDelays(Len(nodeSleeps))
              /\ Len(nodeSleeps) \in {nodeCalls - 1, nodeCalls}
              /\ phase \in {"sleep", "invoke", "returned"}
              /\ phase = "sleep" => Len(nodeSleeps) = nodeCalls - 1
              /\ phase = "invoke" => Len(nodeSleeps) = nodeCalls
    /\ (SynthesisFailing /\ phase = "returned")
           => /\ nodeCalls = MAX_RETRIES
              /\ nodeSleeps = ExponentialDelays(MAX_RETRIES - 1)
              /\ update = Returned([final_report |-> fallback_report,
                                    error |-> SynthesisError(response.msg)])
              /\ Truthy(update.val.error)
    /\ pc = "synthesizer" => update.kind # "raise"

\* A synthesizer configured for three attempts failed three times, having
\* slept 1 s and 2 s.
C14_Witness ==
    /\ SynthesisFailing
    /\ phase = "returned"
    /\ MAX_RETRIES = 3
    /\ nodeCalls = 3
    /\ nodeSleeps = <<1, 2>>

\* A generation call of the synthesizer succeeded and the node returned.
SynthesisSucceeded ==
    pc = "synthesizer" /\ phase = "returned" /\ response.kind = "result"

\* The update of a synthesis that succeeded is the collaborator's text alone.
C15_SuccessUpdate ==
    SynthesisSucceeded
        => /\ update.kind = "dict"
           /\ DOMAIN update.val = {"final_report"}
           /\ update.val.final_report = response.result
           /\ ~Truthy(state.error)

\* After the call that succeeds the run makes no generation call; the merge
\* sets finalReport to the text and leaves errorMessage empty.
C15_SuccessStep ==
    /\ SynthesisSucceeded
           => /\ callCount' = callCount
              /\ pc' = END
              /\ state'.final_report = response.result
              /\ state'.error = EmptyText
    /\ (pc = "synthesizer" /\ phase = "invoke" /\ SynthesisSucceeded')
           => nodeCalls' = nodeCalls + 1
    /\ pc = END => callCount' = callCount

\* C15: when a synthesis generation call succeeds, finalReport is exactly the
\* collaborator's raw text, no further generation call is made, and
\* errorMessage stays unset.
C15_SynthesisSuccess ==
    [](C15_SuccessUpdate) /\ [][C15_SuccessStep]_vars

\* The synthesizer's second call returned a report, after a failed first one.
C15_Witness ==
    /\ SynthesisSucceeded
    /\ Truthy(response.result)
    /\ nodeCalls = 2

\* The transitions the claim lists.
C16_Transitions ==
    {<<START, "evaluate_task_achievement_t1">>,
     <<START, "evaluate_task_response_t2">>,
     <<START, "handle_error">>,
     <<"evaluate_task_achievement_t1", "evaluate_coherence_cohesion">>,
     <<"evaluate_task_response_t2", "evaluate_coherence_cohesion">>,
     <<"evaluate_coherence_cohesion", "evaluate_lexical_resource">>,
     <<"evaluate_lexical_resource", "evaluate_grammatical_range">>,
     <<"evaluate_grammatical_range", "synthesizer">>,
     <<"synthesizer", END>>,
     <<"handle_error", END>>}

\* The three orders in which an invocation may visit the nodes.
C16_Paths ==
    {<<"evaluate_task_achievement_t1", "evaluate_coherence_cohesion",
       "evaluate_lexical_resource", "evaluate_grammatical_range", "synthesizer">>,
     <<"evaluate_task_response_t2", "evaluate_coherence_cohesion",
       "evaluate_lexical_resource", "evaluate_grammatical_range", "synthesizer">>,
     <<"handle_error">>}

\* The nodes visited so far: no node twice, and the beginning of a path.
C16_VisitedInOrder ==
    /\ \A i, j \in 1..Len(visited) : visited[i] = visited[j] => i = j
    /\ \E path \in C16_Paths :
           /\ Len(visited) <= Len(path)
           /\ \A i \in 1..Len(visited) : visited[i] = path[i]
    /\ pc = END => visited \in C16_Paths

\* Every change of the executor's position is one of the transitions.
C16_Step == pc' # pc => <<pc, pc'>> \in C16_Transitions

\* C16: the executor moves only along Router -> {task-achievement |
\* task-response | ErrorTerminal}, both -> Coherence -> Lexical -> Grammar ->
\* Synthesizer -> end, ErrorTerminal -> end; no node is visited twice in an
\* invocation, and the nodes are visited in that order.
C16_TransitionsAcyclicInOrder ==
    [](C16_VisitedInOrder) /\ [][C16_Step]_vars

\* An invocation ended after the five nodes of the task-1 path.
C16_Witness ==
    /\ pc = END
    /\ Len(visited) = 5
    /\ visited[1] = "evaluate_task_achievement_t1"
    /\ visited[5] = "synthesizer"

\* At most 5 nodes executed, at most MAX_RETRIES generation attempts in a node,
\* and the end state comes after the synthesizer or the error terminal.
C17_Bounded ==
    /\ Len(visited) <= 5
    /\ nodeCalls <= MAX_RETRIES
    /\ callCount <= 5 * MAX_RETRIES
    /\ pc = END => /\ visited # <<>>
                   /\ visited[Len(visited)] \in {"synthesizer", "handle_error"}

\* C17: provided each generation call eventually returns or fails, every
\* invocation reaches the end state, after the synthesizer or after the error
\* terminal, having executed at most 5 nodes and at most MAX_RETRIES
\* generation attempts per node.
C17_Terminates ==
    <>(pc = END) /\ [](C17_Bounded)

\* An invocation ended after 5 nodes of 3 generation attempts each.
C17_Witness ==
    /\ pc = END
    /\ Len(visited) = 5
    /\ MAX_RETRIES = 3
    /\ callCount = 15

\* C18: the error terminal uses a generic non-empty message when errorMessage
\* is unset or empty, sets finalReport to the diagnostic wrapper embedding the
\* message, and leaves errorMessage non-empty in its update; the run ends after it.
C18_ErrorTerminalDiagnoses ==
    (pc = "handle_error" /\ phase = "returned")
        => LET found == StateGet(state, "error", EmptyText)
               message == IF Truthy(found) THEN found ELSE DEFAULT_ERROR
           IN  /\ update = Returned([error |-> message,
                                     final_report |-> ErrorWrapper(message)])
               /\ Truthy(update.val.error)
               /\ NextNode(pc) = END

\* A field of the response that is present and not the empty text.
NonEmptyField(v) == v.present /\ Truthy(v.text)

\* C19: the response evaluate_essay returns holds exactly one of a non-empty
\* report and a non-empty error.
C19_ExactlyOneOfReportOrError ==
    (pc = "responded" /\ api_response.status = "200")
        => (NonEmptyField(api_response.report) # NonEmptyField(api_response.error))

\* The run of C20: a task-2 category, a non-empty document, no history, no
\* generation call that failed or was rejected.
C20_Scenario ==
    /\ IsTask2
    /\ ~IsTask1
    /\ Truthy(state.essay_text)
    /\ state.previous_attempts = <<>>
    /\ failedCalls = 0

\* The step that ends the run of C20 after a non-empty synthesis text.
C20_FinalStep ==
    (C20_Scenario /\ SynthesisSucceeded /\ Truthy(response.result))
        => /\ pc' = END
           /\ Truthy(state'.final_report)
           /\ state'.error = EmptyText
           /\ DOMAIN state'.evaluations
                  = {"task_response", "coherence_cohesion",
                     "lexical_resource", "grammatical_range"}
           /\ callCount' = 5
           /\ sleepCount' = 0

\* C20: for a task-2 category, a non-empty document, empty history and a
\* collaborator whose every call succeeds with schema-conforming output and
\* non-empty synthesis text, the invocation ends with non-empty finalReport,
\* empty errorMessage and evaluations holding exactly task_response,
\* coherence_cohesion, lexical_resource and grammatical_range, after exactly 5
\* generation calls and no backoff sleep.
C20_HappyPathTask2 ==
    [][C20_FinalStep]_vars

\* The run of C20 at its end.
C20_Witness ==
    /\ C20_Scenario
    /\ pc = END
    /\ Truthy(state.final_report)
    /\ state.error = EmptyText
    /\ callCount = 5
    /\ sleepCount = 0

-----------------------------------------------------------------------------
(* C21..C30 *)

\* No whitespace at either end of t and no two whitespace characters in a row.
Collapsed(t) ==
    \A i \in 1..Len(t) :
        t[i] \in Whitespace
            => /\ i \notin {1, Len(t)}
               /\ t[i + 1] \notin Whitespace

\* The whitespace of t is single spaces between words.
SingleSpaced(t) ==
    /\ Collapsed(t)
    /\ \A i \in 1..Len(t) : t[i] \in Whitespace => t[i] = " "

\* The length of t once collapsed: its other characters, and one space
\* between each word and the next.
CollapsedLength(t) ==
    LET letters == {i \in 1..Len(t) : t[i] \notin Whitespace}
        starts == {i \in letters : i = 1 \/ t[i - 1] \in Whitespace}
    IN  Cardinality(letters) + (IF starts = {} THEN 0 ELSE Cardinality(starts) - 1)

\* sanitize_text applied again changes nothing, when the collapsed text is
\* within the limit.
C22_SecondPass ==
    (Len(sanitized) = 2 /\ CollapsedLength(text) <= max_length)
        => sanitized[2] = sanitized[1]

\* C22 as claimed: every text with no leading, trailing or consecutive
\* whitespace and of length at most the limit is returned unchanged, and
\* sanitizing twice equals sanitizing once when the collapsed length is at
\* most the limit.
C22_CollapsedTextUnchanged ==
    /\ (Len(sanitized) >= 1 /\ Collapsed(text) /\ Len(text) <= max_length)
           => sanitized[1] = text
    /\ C22_SecondPass

\* C22 amended: a text whose whitespace is single spaces between words and
\* whose length is at most the limit is returned unchanged; sanitizing twice
\* equals sanitizing once when the collapsed length is at most the limit.
C22_SingleSpacedTextUnchanged ==
    /\ (Len(sanitized) >= 1 /\ SingleSpaced(text) /\ Len(text) <= max_length)
           => sanitized[1] = text
    /\ C22_SecondPass

\* A single-spaced text of exactly the limit's length, sanitized twice.
C22_Witness ==
    /\ Len(sanitized) = 2
    /\ SingleSpaced(text)
    /\ \E i \in 1..Len(text) : text[i] = " "
    /\ Len(text) = max_length
    /\ sanitized[2] = text

\* A stage built its prompt: it got past the essay check.
StagePrompted == InStage /\ prompt # NoPrompt

\* The reading of "the criterion needs visual grounding" by criterion: the
\* task-1 criterion alone describes a chart.
NeedsVisualGrounding(criterion) == criterion = "task_achievement"

\* The visual template embeds prompt_text as it is; the plain one has no
\* place for it.
C28_VisualDataVerbatim ==
    StagePrompted
        => /\ prompt.template \in {"task_1", "plain"}
           /\ prompt.template = "task_1"
                  => /\ "visual_data" \in DOMAIN prompt.values
                     /\ prompt.values.visual_data = state.prompt_text
           /\ prompt.template = "plain" => "visual_data" \notin DOMAIN prompt.values

\* C28 as claimed: a stage uses the visual-aware template iff its criterion
\* needs visual grounding and promptContext is non-empty, and the plain
\* template in every other case.
C28_VisualTemplateByCriterion ==
    /\ C28_VisualDataVerbatim
    /\ StagePrompted
           => (prompt.template = "task_1"
                   <=> /\ NeedsVisualGrounding(criterion_name(pc))
                       /\ Truthy(state.prompt_text))

\* C28 amended: a stage, whatever its criterion, uses the visual-aware
\* template iff the category contains "task 1" (ignoring case) and
\* promptContext is non-empty, and the plain template in every other case.
C28_VisualTemplateByCategory ==
    /\ C28_VisualDataVerbatim
    /\ StagePrompted
           => (prompt.template = "task_1" <=> (IsTask1 /\ Truthy(state.prompt_text)))

\* The coherence stage of a task-1 run with a prompt text chose the visual template.
C28_Witness ==
    /\ StagePrompted
    /\ pc = "evaluate_coherence_cohesion"
    /\ prompt.template = "task_1"
    /\ Truthy(prompt.values.visual_data)

-----------------------------------------------------------------------------
(* C23, C29: the synthesizer's prompt *)

\* The synthesizer built its prompt.
SynthesisPrompted == pc = "synthesizer" /\ prompt # NoPrompt

History == StateGet(state, "previous_attempts", <<>>)

\* The number a decimal numeral denotes.
RECURSIVE DecimalValue(_)
DecimalValue(numeral) ==
    IF numeral = <<>>
    THEN 0
    ELSE 10 * DecimalValue(SubSeq(numeral, 1, Len(numeral) - 1))
            + (CHOOSE d \in 0..9 : Digits[d + 1] = numeral[Len(numeral)])

\* Where the entries of the block start.
Marks(block) == {p \in DOMAIN block : block[p] = SYNTHESIS_ATTEMPT}

NthMark(block, k) ==
    CHOOSE p \in Marks(block) : Cardinality({q \in Marks(block) : q < p}) = k - 1

\* The first place at or after p where the fragment stands.
FirstAfter(block, p, fragment) ==
    CHOOSE q \in p..Len(block) :
        block[q] = fragment /\ \A r \in p..(q - 1) : block[r] # fragment

\* The entry that starts at p, read from the text of the block.
EntryAt(block, p) ==
    LET open == FirstAfter(block, p + 1, " (")
        close == FirstAfter(block, open + 1, "):\n")
        line == FirstAfter(block, close + 2, "\n")
        last == FirstAfter(block, line + 2, SYNTHESIS_ELLIPSIS)
    IN  [number |-> DecimalValue(SubSeq(block, p + 1, open - 1)),
         date |-> SubSeq(block, open + 1, close - 1),
         labels |-> <<block[close + 1], block[line + 1]>>,
         word_count |-> DecimalValue(SubSeq(block, close + 2, line - 1)),
         excerpt |-> SubSeq(block, line + 2, last - 1),
         last |-> last]

IsPrefix(s, t) == Len(s) <= Len(t) /\ s = SubSeq(t, 1, Len(s))

\* The head of the block states which attempt this is and how many came before.
C23_StatesCount(block, n) ==
    LET middle == FirstAfter(block, 2,
                      " for this question. The student has previously attempted this ")
        tail == FirstAfter(block, middle + 1,
                      " time(s).\n\nPrevious Attempts Summary:\n")
    IN  /\ block[1] = SYNTHESIS_CONTEXT
        /\ DecimalValue(SubSeq(block, 2, middle - 1)) = n + 1
        /\ DecimalValue(SubSeq(block, middle + 1, tail - 1)) = n
        /\ n > 0 => NthMark(block, 1) = tail + 1

\* Entry k of the block is attempt k of the history.
C23_Enumerates(block, k) ==
    LET entry == EntryAt(block, NthMark(block, k))
        item == History[k]
    IN  /\ entry.number = k
        /\ IsPrefix(entry.date, item.timestamp)
        /\ Len(entry.date) = IF Len(item.timestamp) < 10 THEN Len(item.timestamp) ELSE 10
        /\ entry.labels = <<"- Word count: ", SYNTHESIS_SUMMARY>>
        /\ entry.word_count = item.word_count
        /\ IsPrefix(entry.excerpt, item.evaluation_summary)
        /\ Len(entry.excerpt) <= 300
        /\ entry.last + 1 = IF k < Len(History) THEN NthMark(block, k + 1) ELSE Len(block)

\* C23: the synthesis prompt has a prior-attempts block iff the history is not
\* empty; the block states the attempt count, lists exactly len(history)
\* attempts in the order of the history, each with the first 10 characters of
\* its timestamp, its word count and at most 300 characters of its summary, and
\* ends with the comparative-feedback instruction.
C23_PriorAttemptsBlock ==
    SynthesisPrompted
        => LET block == prompt.values.previous_context
           IN  /\ block # EmptyText <=> Len(History) > 0
               /\ Len(History) > 0
                      => /\ C23_StatesCount(block, Len(History))
                         /\ Cardinality(Marks(block)) = Len(History)
                         /\ \A k \in 1..Len(History) : C23_Enumerates(block, k)
                         /\ block[Len(block)] = SYNTHESIS_COMPARATIVE

\* A task 2 essay with two prior attempts that differ, the later one with a
\* long summary, is at the generation call.
C23_Witness ==
    /\ SynthesisPrompted
    /\ phase = "invoke"
    /\ IsTask2
    /\ Len(History) = 2
    /\ History[1].timestamp # History[2].timestamp
    /\ Len(History[2].evaluation_summary) > 300

\* The criteria the synthesizer expects for the category.
ExpectedCriteria ==
    {"coherence_cohesion", "lexical_resource", "grammatical_range"}
        \cup (IF IsTask1 THEN {"task_achievement"}
              ELSE IF IsTask2 THEN {"task_response"} ELSE {})

\* The synthesizer runs without an error and with some of the expected
\* evaluations, not all.
SomeEvaluationsMissing ==
    /\ pc = "synthesizer"
    /\ ~Truthy(StateGet(state, "error", EmptyText))
    /\ Truthy(StateGet(state, "evaluations", EmptyMap))
    /\ ExpectedCriteria \ DOMAIN state.evaluations # {}

\* C29: entered with no error and with evaluations that lack an expected
\* criterion, the synthesizer does not fail: it goes on to the generation call
\* with the evaluations that exist, and when the call succeeds it returns the
\* report and no error.
C29_MissingCriteriaNotFatal ==
    SomeEvaluationsMissing
        => /\ phase # "enter"
                  => /\ prompt # NoPrompt
                     /\ prompt.values.evaluations = [json |-> state.evaluations]
           /\ phase = "returned" => nodeCalls >= 1
           /\ (phase = "returned" /\ response.kind = "result")
                  => /\ update.kind = "dict"
                     /\ DOMAIN update.val = {"final_report"}
                     /\ update.val.final_report = response.result

\* A task 1 essay with the lexical evaluation alone: the call succeeded.
C29_Witness ==
    /\ SomeEvaluationsMissing
    /\ IsTask1
    /\ DOMAIN state.evaluations = {"lexical_resource"}
    /\ phase = "returned"
    /\ response.kind = "result"
    /\ Truthy(response.result)

-----------------------------------------------------------------------------
(* C24: concurrent invocations *)

\* What request j observes of its state.
Observed(j) ==
    IF invocations[j].pc = "idle"
    THEN EmptyMap
    ELSE [evaluations |-> heap[invocations[j].state.evaluations],
          final_report |-> invocations[j].state.final_report,
          error |-> invocations[j].state.error]

\* A step that is not request j's leaves what j observes as it was.
C24_OthersUnchanged ==
    \A j \in 1..MaxInvocations :
        invocations'[j] = invocations[j] => Observed(j)' = Observed(j)

\* C24: two invocations that run at the same time own independent states: no
\* step of one changes the evaluations, the report or the error the other
\* observes, and no step changes the rubrics loaded at construction.
C24_IndependentInvocations ==
    [][C24_OthersUnchanged /\ rubric_data' = rubric_data]_vars

\* Two requests are between their stages, each with evaluations of its own.
C24_Witness ==
    /\ invocations[1].pc = "evaluate_grammatical_range"
    /\ invocations[2].pc = "evaluate_coherence_cohesion"
    /\ invocations[1].state.evaluations # invocations[2].state.evaluations
    /\ DOMAIN Observed(1).evaluations = {"task_achievement", "lexical_resource"}
    /\ DOMAIN Observed(2).evaluations = {"task_response"}
    /\ Truthy(Observed(1).error)

-----------------------------------------------------------------------------
(* C25, C26, C27, C30: the data manager *)

\* The step is a call of the endpoint, not the passing of time.
CallStep(call) ==
    /\ returned'.call = call
    /\ <<returned, evaluation_history, question_bank>>'
           # <<returned, evaluation_history, question_bank>>

\* The files of the evaluations saved for the question.
StoredFor(question_id) ==
    {name \in DOMAIN evaluation_history :
        evaluation_history[name].question_id = question_id}

\* The length of get_evaluation_history for the question.
HistoryLength(question_id) == Cardinality(glob(question_id))

C25_SaveStep ==
    CallStep("save_evaluation")
        => /\ returned'.value.evaluation_id \notin DOMAIN evaluation_history
           /\ \A name \in DOMAIN evaluation_history :
                  /\ name \in DOMAIN evaluation_history'
                  /\ evaluation_history'[name] = evaluation_history[name]
           /\ \A q \in QuestionIds :
                  q = returned'.question_id
                      => HistoryLength(q)' = HistoryLength(q) + 1

\* C25: save_evaluation returns an id that no stored evaluation has, two saves
\* for one question in the same second included; it overwrites nothing, and
\* the history of the question grows by exactly one.
C25_UniqueEvaluationIds == [][C25_SaveStep]_vars

C26_DeleteStep ==
    CallStep("delete_question")
        => \A q \in QuestionIds :
               q = returned'.question_id
                   => /\ get_question(q)' = NoneText
                      /\ get_evaluation_history(q)' = {<<>>}
                      /\ \A r \in QuestionIds \ {q} :
                             /\ get_question(r)' = get_question(r)
                             /\ \A name \in StoredFor(r) :
                                    /\ name \in DOMAIN evaluation_history'
                                    /\ evaluation_history'[name] = evaluation_history[name]

\* C26: delete_question(q) deletes the question q and its evaluations and
\* nothing else: afterwards q is not found and its history is empty, and the
\* questions and the evaluations of every other id, the ids that start with q
\* and an underscore included, are as they were.
C26_DeleteQuestionFrame == [][C26_DeleteStep]_vars

C27_DeleteStep ==
    CallStep("delete_question")
        => LET q == returned'.question_id
           IN  /\ q \notin question_bank => returned'.value.status_code = 404
               /\ returned'.value.status_code = 200
                      => q \in question_bank /\ q \notin question_bank'

\* C27: the delete-question endpoint answers 404 whenever no question of the
\* id is stored, and answers success only when a stored question was deleted.
C27_DeleteQuestionNotFound == [][C27_DeleteStep]_vars

C30_FetchStep ==
    CallStep("get_evaluation_history")
        => LET q == returned'.question_id
               history == returned'.value.history
               previous_attempts == returned'.value.previous_attempts
           IN  /\ {history[i] : i \in DOMAIN history}
                      = {evaluation_history[name] : name \in StoredFor(q)}
               /\ Len(history) = Cardinality(StoredFor(q))
               /\ \A i, j \in DOMAIN history :
                      i < j => history[i].timestamp <= history[j].timestamp
               /\ Len(previous_attempts) = Len(history)
               /\ \A i \in DOMAIN history :
                      /\ previous_attempts[i].attempt_number = i
                      /\ previous_attempts[i].timestamp = history[i].timestamp
                      /\ previous_attempts[i].word_count = history[i].word_count

\* C30: get_evaluation_history(q) returns exactly the stored evaluations whose
\* question_id is q, oldest first, and evaluate_essay hands them to the
\* pipeline as the history in the same order.
C30_HistoryOfQuestion == [][C30_FetchStep]_vars

-----------------------------------------------------------------------------
(* C31..C38 *)

\* A stage returned after a response it accepted.
StageAccepted == InStage /\ outcome = "success"

\* The accepted response came on attempt nodeCalls: that many calls, one sleep
\* less, of 1, 2, ... seconds, and every earlier response was not accepted.
C31_AcceptedOnAttempt ==
    StageAccepted
        => /\ phase = "returned"
           /\ nodeCalls \in 1..MAX_RETRIES
           /\ attempt = nodeCalls - 1
           /\ Len(nodeSleeps) = nodeCalls - 1
           /\ \A i \in 1..Len(nodeSleeps) : nodeSleeps[i] = 2 ^ (i - 1)
           /\ ResponseIsMapping
           /\ validate_json_output(response.result, StageSchema)

\* The response of every call is accepted or counted as failed, and the call
\* that is accepted is the last of its stage: the next step hands over.
C31_StopsAtAccepted ==
    /\ (InStage /\ phase = "invoke" /\ nodeCalls' = nodeCalls + 1)
           => (StageAccepted' \/ failedCalls' = failedCalls + 1)
    /\ StageAccepted
           => /\ callCount' = callCount
              /\ sleepCount' = sleepCount
              /\ pc' = NextNode(pc)

\* C31: a stage stops at the first accepted response: when it comes on attempt
\* k the stage has made exactly k generation calls and exactly k-1 backoff
\* sleeps of 1, 2, ..., 2^(k-2) seconds, and makes no call or sleep after it.
C31_StopsAtFirstAcceptedResponse ==
    [](C31_AcceptedOnAttempt) /\ [][C31_StopsAtAccepted]_vars

\* A stage accepted the response of its third attempt, having slept 1 s and 2 s.
C31_Witness ==
    /\ StageAccepted
    /\ MAX_RETRIES = 3
    /\ nodeCalls = 3
    /\ nodeSleeps = <<1, 2>>

\* The synthesizer is about to run: every stage of the run has handed over.
SynthesizerEntered == pc = "synthesizer" /\ phase = "enter"

\* The stages of the run that succeeded so far: a stage ends with the one call
\* whose response it accepts, so these are the calls that did not fail.
StagesSucceeded == callCount - failedCalls

\* C32: with MAX_RETRIES >= 1 and a routable category, whenever the
\* synthesizer is entered errorMessage is empty iff all four stages of the run
\* succeeded iff evaluations holds all four expected criteria; so the
\* synthesizer never takes its empty-evaluations fallback nor runs with a
\* criterion missing and no error.
C32_ErrorIffStageFailed ==
    /\ SynthesizerEntered
           => /\ MAX_RETRIES >= 1
              /\ IsTask1 \/ IsTask2
              /\ Cardinality(ExpectedCriteria) = 4
              /\ ~Truthy(state.error) <=> StagesSucceeded = 4
              /\ StagesSucceeded = 4 <=> ExpectedCriteria \subseteq DOMAIN state.evaluations
              /\ DOMAIN state.evaluations \subseteq ExpectedCriteria
    /\ pc = "synthesizer"
           => /\ outcome # "rejected"
              /\ update # synthesizer_except(NO_EVALUATIONS)
              /\ ~SomeEvaluationsMissing

\* The synthesizer is entered after four stages that succeeded, one of them on
\* a retry, and with no error.
C32_Witness ==
    /\ SynthesizerEntered
    /\ ~Truthy(state.error)
    /\ StagesSucceeded = 4
    /\ failedCalls = 1
    /\ IsTask1

\* The stages that ran and left no evaluation: with at least one attempt
\* allowed, the stages that failed.
FailedStages ==
    {i \in DOMAIN visited :
        /\ visited[i] \in EvaluatorNodes
        /\ criterion_name(visited[i]) \notin DOMAIN state.evaluations}

\* The criterion of the failing stage that ran last.
LastFailedCriterion ==
    criterion_name(visited[CHOOSE i \in FailedStages : \A j \in FailedStages : j <= i])

\* The error a stage of the criterion reports.
IsFailureOf(error, criterion) ==
    /\ Len(error) >= 3
    /\ error[1] = "Failed during "
    /\ error[2] = criterion
    /\ error[3] = " evaluation: "

\* At the end of a run in which stages failed the error is that of the last one.
C33_LastFailureAtCompletion ==
    (pc = END /\ FailedStages # {})
        => IsFailureOf(state.error, LastFailedCriterion)

\* No step empties a non-empty error; a stage that fails replaces it by its
\* own, and a stage that succeeds and the synthesizer that finds it keep it.
C33_StickyStep ==
    /\ Truthy(state.error) => Truthy(state'.error)
    /\ (InStage /\ phase = "returned")
           => IF outcome = "success"
              THEN state'.error = state.error
              ELSE IsFailureOf(state'.error, criterion_name(pc))
    /\ (pc = "synthesizer" /\ phase = "returned" /\ Truthy(state.error))
           => state'.error = state.error

\* C33: errorMessage is sticky: once a node sets it non-empty it is non-empty
\* in every later state of the invocation, a later successful stage does not
\* clear it, and when several stages fail the errorMessage at completion is
\* that of the last failing stage in chain order.
C33_ErrorSticky ==
    [](C33_LastFailureAtCompletion) /\ [][C33_StickyStep]_vars

\* The first and the last stage failed and the coherence stage between them
\* succeeded: the run ended with the error of the grammar stage.
C33_Witness ==
    /\ pc = END
    /\ Truthy(state.essay_text)
    /\ DOMAIN state.evaluations = {"coherence_cohesion", "lexical_resource"}
    /\ Cardinality(FailedStages) = 2
    /\ IsFailureOf(state.error, "grammatical_range")

\* A stage returned an error.
StageFailed == InStage /\ phase = "returned" /\ outcome \in {"exhausted", "rejected"}

\* The run is over: its last node was the synthesizer, and the report is the
\* fixed generic-error report.
EndedWithGenericReport ==
    /\ pc = END
    /\ visited[Len(visited)] = "synthesizer"
    /\ state.final_report = GENERIC_ERROR_REPORT

\* The error terminal runs first and alone, for a category that is not
\* routable; a run in which a stage failed is over only as described above.
C34_TerminalByRouterAlone ==
    /\ (\E i \in DOMAIN visited : visited[i] = "handle_error")
           => /\ ~IsTask1
              /\ ~IsTask2
              /\ visited = <<"handle_error">>
    /\ pc = "handle_error"
           => /\ ~IsTask1
              /\ ~IsTask2
              /\ visited \in {<<>>, <<"handle_error">>}
    /\ (pc = END /\ FailedStages # {}) => EndedWithGenericReport

\* C34: the error terminal is executed only when the router selects it: for a
\* routable category it is never executed, whatever stages fail, and an
\* invocation in which a stage failed always ends at the synthesizer with the
\* fixed generic-error report as finalReport.
C34_ErrorTerminalOnlyByRouter ==
    [](C34_TerminalByRouterAlone) /\ (StageFailed ~> EndedWithGenericReport)

\* The run of a routable category ended after its lexical stage had failed.
C34_Witness ==
    /\ EndedWithGenericReport
    /\ IsTask2
    /\ Truthy(state.essay_text)
    /\ IsFailureOf(state.error, "lexical_resource")
    /\ visited = <<"evaluate_task_response_t2", "evaluate_coherence_cohesion",
                   "evaluate_lexical_resource", "evaluate_grammatical_range",
                   "synthesizer">>

\* The step is a generation call.
GenerationCall == callCount' = callCount + 1

\* The stages that ran.
StagesRun == {i \in DOMAIN visited : visited[i] \in EvaluatorNodes}

\* The calls of a run are at most five times MAX_RETRIES, and the synthesizer
\* has made a call only after four stages that all succeeded.
C35_CallsBounded ==
    /\ callCount <= 5 * MAX_RETRIES
    /\ InStage => nodeCalls <= MAX_RETRIES
    /\ (pc = "synthesizer" /\ nodeCalls >= 1)
           => /\ nodeCalls <= MAX_RETRIES
              /\ Cardinality(StagesRun) = 4
              /\ FailedStages = {}
              /\ ExpectedCriteria \subseteq DOMAIN state.evaluations
              /\ ~Truthy(state.error)

\* A call is made by a stage or by the synthesizer; a stage calls before the
\* synthesizer has run, and the synthesizer calls when the four stages have
\* run and the executor is past them.
C35_CallOrder ==
    /\ callCount' \in {callCount, callCount + 1}
    /\ GenerationCall
           => /\ pc' = pc
              /\ pc \in EvaluatorNodes \cup {"synthesizer"}
              /\ InStage => \A i \in DOMAIN visited : visited[i] # "synthesizer"
              /\ pc = "synthesizer"
                     => /\ Cardinality(StagesRun) = 4
                        /\ visited[Len(visited)] = "synthesizer"
    /\ (pc = "synthesizer" /\ InStage') => FALSE

\* C35: per invocation the generation calls are at most 5 * MAX_RETRIES; the
\* synthesizer makes a generation call only if all four stages of the run
\* succeeded, and every synthesis call happens after every stage call.
C35_GenerationCallsBounded ==
    [](C35_CallsBounded) /\ [][C35_CallOrder]_vars

\* Every stage succeeded on its third attempt and the synthesizer made its
\* third call: fifteen calls with MAX_RETRIES = 3.
C35_Witness ==
    /\ pc = "synthesizer"
    /\ MAX_RETRIES = 3
    /\ nodeCalls = 3
    /\ callCount = 15

TaskStages == {"evaluate_task_achievement_t1", "evaluate_task_response_t2"}

\* The task stages that ran.
TaskStagesRun == {i \in DOMAIN visited : visited[i] \in TaskStages}

\* The keys of the evaluations.
EvaluationKeys(st) == DOMAIN StateGet(st, "evaluations", EmptyMap)

\* The run is past its first node's entry.
FirstNodeEntered == visited # <<>>

\* At most one task stage has run: the one of the category, as the first node,
\* or none when the category names no task; the keys are criterion names,
\* never both task criteria.
C36_OneTaskStage ==
    /\ Cardinality(TaskStagesRun) <= 1
    /\ FirstNodeEntered
           => CASE visited[1] = "evaluate_task_achievement_t1" ->
                       IsTask1 /\ Cardinality(TaskStagesRun) = 1
                [] visited[1] = "evaluate_task_response_t2" ->
                       ~IsTask1 /\ IsTask2 /\ Cardinality(TaskStagesRun) = 1
                [] visited[1] = "handle_error" ->
                       ~IsTask1 /\ ~IsTask2 /\ TaskStagesRun = {}
                [] OTHER -> FALSE
    /\ EvaluationKeys(state) \subseteq Criteria
    /\ ~({"task_achievement", "task_response"} \subseteq EvaluationKeys(state))

\* No step removes a key of the evaluations.
C36_KeysGrow == EvaluationKeys(state) \subseteq EvaluationKeys(state')

\* C36: in every invocation exactly one of the task-achievement and
\* task-response stages runs (neither for an unroutable category); the
\* evaluations keys are criterion names, never both task_achievement and
\* task_response, and the key set only grows during the run.
C36_OneTaskStageAndKeysGrow ==
    [](C36_OneTaskStage) /\ [][C36_KeysGrow]_vars

\* A task 2 run ended with the task-response stage as its only task stage and
\* the four keys of its stages.
C36_Witness ==
    /\ pc = END
    /\ IsTask2
    /\ visited[1] = "evaluate_task_response_t2"
    /\ Cardinality(TaskStagesRun) = 1
    /\ EvaluationKeys(state) = {"task_response", "coherence_cohesion",
                                "lexical_resource", "grammatical_range"}

\* The graph invoked by a caller of its own, past the request validation of
\* evaluate_essay: the essay_text is any string, also one of whitespace alone.
BlankEssay == <<" ", "\n">>

GraphEssayTexts == EssayTexts \cup {BlankEssay}

InitGraphCall ==
    /\ state \in {Inputs(c, EmptyText, e, <<>>) : c \in PipelineCategories,
                                                 e \in GraphEssayTexts}
    /\ MAX_RETRIES \in 1..MaxRetriesConfig
    /\ expected_output_keys \in RubricRegistries
    /\ caller = "direct"
    /\ InitRun

SpecGraphCall == InitGraphCall /\ [][Next]_vars

\* The essay the stage sanitizes is empty.
SanitizedEssayEmpty == sanitize_text(state.essay_text) = EmptyText

\* C37: a stage never calls the generation collaborator with an empty
\* sanitized essay: an essay_text of whitespace alone is rejected as the empty
\* string is, with the "No essay text provided" failure and no call.
C37_BlankEssayRejected ==
    InStage =>
        /\ nodeCalls >= 1 => prompt.values.essay # EmptyText
        /\ SanitizedEssayEmpty
               => /\ nodeCalls = 0
                  /\ phase = "returned"
                         => update = evaluator_except(criterion_name(pc), NO_ESSAY)

\* The update carries a result or a failure message.
CarriesResultOrError(u) ==
    /\ u.kind = "dict"
    /\ \/ "evaluations" \in DOMAIN u.val
       \/ "final_report" \in DOMAIN u.val /\ u.val.final_report # EmptyText
       \/ "error" \in DOMAIN u.val /\ u.val.error # EmptyText

\* C38: with MAX_RETRIES at 0 or below, every stage and the synthesizer still
\* return an update that carries a result or a non-empty error; no node
\* finishes without a generation attempt and without an update.
C38_ZeroRetriesWellFormed ==
    (/\ MAX_RETRIES <= 0
     /\ pc \in EvaluatorNodes \cup {"synthesizer"}
     /\ phase = "returned")
        => /\ CarriesResultOrError(update)
           /\ ~(nodeCalls = 0 /\ update = ReturnedNone)

=============================================================================
